---- MODULE Spec2Model ----
(***************************************************************************)
(* Meal-analysis pipeline of calories-ai:                                  *)
(*   - the Cloud Function analyzeMealNutrition (functions index),          *)
(*   - the client API class (src/api/api.ts),                              *)
(*   - the Dashboard view (analyze / edit / save / cancel / logout).       *)
(*                                                                         *)
(* JavaScript values are tagged records.  A number is held in fixed point: *)
(* Num(k) is the number k / Den.  A string is a sequence of one-character  *)
(* strings.  A number the fixed point cannot hold (a numeric string such   *)
(* as "0.3") is the fraction n / d in lowest terms, with its own d.        *)
(***************************************************************************)
EXTENDS Integers, Sequences, FiniteSets, TLC

(***************************************************************************)
(* Bounds of the model.                                                    *)
(***************************************************************************)
Den == 2            \* fixed-point resolution: one unit is Den ticks
MaxTicks == 1       \* largest value (in ticks) a user types into the editor
MaxRuns == 2        \* analysis submissions per behaviour
MaxSaves == 2       \* saveNutritionData calls per behaviour
MaxCalls == 3       \* direct client calls per behaviour (SpecClient)
MaxEdits == 1       \* changes the user makes in the editor per behaviour
MaxGets == 6        \* getAPI() calls per behaviour (SpecGetAPI)
MaxRequires == 3    \* requireUser() calls per behaviour (SpecRequireUser)
MaxRegs == 2        \* register() calls per behaviour (SpecRegister)
MaxLogouts == 1     \* clicks on Logout per behaviour

(***************************************************************************)
(* State.                                                                  *)
(***************************************************************************)
VARIABLES
    \* the Cloud Function analyzeMealNutrition, one invocation
    hpc,          \* handler position: "entry", "calling", "returned", "thrown"
    auth,         \* the call's auth context: Undefined or an object with a token
    unsafeData,   \* the call's payload
    messages,     \* the chat messages handed to the model
    modelCalls,   \* number of openai.chat.completions.create calls made
    content,      \* response.choices[0]?.message.content, as received
    hresult,      \* the returned NutritionAnalysis, or Null
    herror,       \* the HttpsError code thrown, or "none"
    \* the client API, one caller
    call,         \* the client call in progress (SpecClient)
    ncalls,       \* client calls made so far (SpecClient)
    \* the Dashboard view
    fileList,          \* useState<UploadFile[]>
    message,           \* the react-hook-form field "message"
    submitLoading,     \* useState(false)
    analyzingMeal,     \* useState(false)
    nutritionData,     \* useState<NutritionAnalysis | null>: Null or a record
    editingNutrition,  \* useState(false)
    validationError,   \* useState<string | null>: "null" or the message
    form,              \* the values of the antd form (Form.useForm)
    toast,             \* the last message.success / message.error shown
    runs,              \* the analyzeMeal calls made, in order
    saves,             \* the saveNutritionData calls made, in order
    store,             \* the documents written to the "meals" collection
    heldRun,           \* the run whose result nutritionData holds, 0 for none
    nedits,            \* number of changes made in the editor
    cancelled,         \* the runs whose result was discarded by Cancel
    sentDescription,   \* the description sent for the result held, or Undefined
    logouts,           \* the handleLogout calls made, in order
    \* the API module and the session methods of the API class
    api,          \* the module variable of api/index.ts: 0 (null) or an instance
    constructed,  \* number of API instances constructed (new API())
    gets,         \* the getAPI() calls made, in order
    requires,     \* the requireUser() calls made, in order
    regs,         \* the register() calls made, in order
    logged        \* number of console.error calls made by register

handlerVars ==
    <<hpc, auth, unsafeData, messages, modelCalls, content, hresult, herror>>

clientVars == <<call, ncalls>>

uiVars ==
    <<fileList, message, submitLoading, analyzingMeal, nutritionData,
      editingNutrition, validationError, form, toast, runs, saves, store,
      heldRun, nedits, cancelled, sentDescription, logouts>>

sessionVars == <<api, constructed, gets, requires, regs, logged>>

vars == <<handlerVars, clientVars, uiVars, sessionVars>>

(***************************************************************************)
(* JavaScript values.                                                      *)
(***************************************************************************)
Undefined == [t |-> "undefined"]
Null == [t |-> "null"]
NaN == [t |-> "NaN"]
Bool(b) == [t |-> "boolean", b |-> b]
Num(k) == [t |-> "number", n |-> k]
Str(s) == [t |-> "string", s |-> s]
Arr(a) == [t |-> "array", a |-> a]
Obj(f) == [t |-> "object", f |-> f]

\* !!v
Truthy(v) ==
    CASE v.t = "undefined" -> FALSE
      [] v.t = "null" -> FALSE
      [] v.t = "NaN" -> FALSE
      [] v.t = "boolean" -> v.b
      [] v.t = "number" -> v # Num(0)
      [] v.t = "string" -> v.s # <<>>
      [] OTHER -> TRUE

\* a || b
OrElse(a, b) == IF Truthy(a) THEN a ELSE b

\* An Infinity of JavaScript: a number with d = 0 and n = 1 or -1.
Infinity(sign) == [t |-> "number", n |-> sign, d |-> 0]

Abs(k) == IF k < 0 THEN 0 - k ELSE k

RECURSIVE GCD(_, _)
GCD(a, b) == IF b = 0 THEN a ELSE GCD(b, a % b)

RECURSIVE Pow(_, _)
Pow(b, e) == IF e = 0 THEN 1 ELSE b * Pow(b, e - 1)

\* The number p / q (q > 0).  On the grid of the fixed point it is Num(k);
\* off the grid it is held as the fraction n / d in lowest terms.
Ratio(p, q) ==
    IF (p * Den) % q = 0 THEN Num((p * Den) \div q)
    ELSE LET g == GCD(Abs(p), q)
         IN  [t |-> "number", n |-> p \div g, d |-> q \div g]

\* The denominator of a number held as a fraction.
Denominator(v) == IF "d" \in DOMAIN v THEN v.d ELSE Den

IsInfinite(v) == v.t = "number" /\ Denominator(v) = 0

(***************************************************************************)
(* Doubles.  A number is one of four forms, each standing for one double:  *)
(* Num(k), the double nearest to k / Den; [n, d] with d > 0, the double    *)
(* nearest to n / d (exactly n / d when d is a power of 2); Binary(neg, m, *)
(* e), exactly m * 2^e; and the Infinities.  The arithmetic of the program *)
(* is the arithmetic of doubles: every result is the exact result rounded  *)
(* to 53 bits, a tie going to the even one.  The exact results are large   *)
(* natural numbers, held as their digits in base 2^15, the least           *)
(* significant first, with no leading zero digit (0 is the empty           *)
(* sequence).                                                              *)
(***************************************************************************)
Base == 32768

Normal(a) ==
    SubSeq(a, 1, IF \A i \in 1..Len(a) : a[i] = 0 THEN 0
                 ELSE CHOOSE i \in 1..Len(a) :
                        a[i] # 0 /\ \A j \in (i + 1)..Len(a) : a[j] = 0)

FromInt(k) == Normal(<<k % Base, (k \div Base) % Base, k \div (Base * Base)>>)

\* a + b, from the sums s of their digits: the carry into a digit comes
\* from the nearest digit below it whose sum is not Base - 1.
BigAdd(a, b) ==
    LET Carried(s) ==
            LET Over(k) == IF s[k] >= Base THEN 1 ELSE 0
            IN  Normal([i \in 1..Len(s) |->
                    (s[i] + (IF \A j \in 1..(i - 1) : s[j] = Base - 1 THEN 0
                             ELSE Over(CHOOSE j \in 1..(i - 1) :
                                          s[j] # Base - 1
                                              /\ \A m \in (j + 1)..(i - 1) :
                                                    s[m] = Base - 1))) % Base])
    IN  Carried([i \in 1..((IF Len(a) > Len(b) THEN Len(a) ELSE Len(b)) + 1) |->
                    (IF i <= Len(a) THEN a[i] ELSE 0)
                        + (IF i <= Len(b) THEN b[i] ELSE 0)])

\* a - b for a >= b (y is b as long as a): the borrow comes from the
\* nearest digit below where the two differ.
BigSub(a, b) ==
    LET Borrowed(y) ==
            LET Less(k) == IF a[k] < y[k] THEN 1 ELSE 0
            IN  Normal([i \in 1..Len(a) |->
                    (a[i] - y[i] + Base
                        - (IF \A j \in 1..(i - 1) : a[j] = y[j] THEN 0
                           ELSE Less(CHOOSE j \in 1..(i - 1) :
                                        a[j] # y[j]
                                            /\ \A m \in (j + 1)..(i - 1) :
                                                  a[m] = y[m]))) % Base])
    IN  Borrowed([i \in 1..Len(a) |-> IF i <= Len(b) THEN b[i] ELSE 0])

\* a * k for 0 <= k <= Base: the low parts of the products of the digits,
\* plus their high parts one digit up.
BigMul(a, k) ==
    BigAdd([i \in 1..Len(a) |-> (a[i] * k) % Base],
           <<0>> \o [i \in 1..Len(a) |-> (a[i] * k) \div Base])

\* a >= b
BigGE(a, b) ==
    IF Len(a) # Len(b) THEN Len(a) > Len(b)
    ELSE IF a = b THEN TRUE
    ELSE LET Greater(k) == a[k] > b[k]
         IN  Greater(CHOOSE i \in 1..Len(a) :
                        a[i] # b[i] /\ \A j \in (i + 1)..Len(a) : a[j] = b[j])

\* a * 2^s and a * 10^s.
BigShift(a, s) ==
    IF a = <<>> THEN <<>>
    ELSE [i \in 1..(s \div 15) |-> 0] \o BigMul(a, Pow(2, s % 15))

RECURSIVE BigScale(_, _)
BigScale(a, s) ==
    IF a = <<>> \/ s = 0 THEN a
    ELSE BigScale(BigMul(a, IF s >= 4 THEN 10000 ELSE 10),
                  IF s >= 4 THEN s - 4 ELSE s - 1)

\* The bits of a > 0, the most significant first (n of them).
BitsOf(a) ==
    LET Bits(n) ==
            [i \in 1..n |-> (a[((n - i) \div 15) + 1] \div Pow(2, (n - i) % 15)) % 2]
    IN  Bits(15 * (Len(a) - 1)
                + (CHOOSE j \in 1..15 :
                      Pow(2, j - 1) <= a[Len(a)] /\ a[Len(a)] < Pow(2, j)))

\* The number a run of bits spells.
FromBits(b) ==
    LET RECURSIVE Limb(_, _)
        Limb(i, j) ==
            IF j = 15 THEN 0
            ELSE (IF 15 * (i - 1) + j < Len(b)
                  THEN b[Len(b) - (15 * (i - 1) + j)] * Pow(2, j) ELSE 0)
                    + Limb(i, j + 1)
    IN  Normal([i \in 1..((Len(b) + 14) \div 15) |-> Limb(i, 0)])

\* The double m * 2^e (negated when neg): m is its significand as bits, the
\* most significant first, the first and the last of them 1.
Binary(neg, m, e) == [t |-> "number", neg |-> neg, m |-> m, e |-> e]

\* The double of b * 2^e, b a run of bits (sticky: of a little more than
\* that): rounded to 53 bits, or to a multiple of 2^-1074, a tie going to
\* the even one; Infinity from 2^1024 on.  A double that is a fraction of
\* small integers is held as that fraction.
RoundBits(neg, b, e, sticky) ==
    LET \* the double with the significand m and the exponent x
        Result(m, x) ==
            LET Signed(k) ==
                    IF x >= 0 THEN Ratio(k * Pow(2, x), 1)
                    ELSE Ratio(k, Pow(2, 0 - x))
                Fraction(val) ==
                    Signed((IF neg THEN -1 ELSE 1)
                              * (val[1] + (IF Len(val) > 1
                                           THEN Base * val[2] ELSE 0)))
            IN  IF Len(m) + x > 1024 THEN Infinity(IF neg THEN -1 ELSE 1)
                ELSE IF Len(m) <= 28 /\ x >= -28 /\ Len(m) + x <= 28
                     THEN Fraction(FromBits(m))
                ELSE Binary(neg, m, x)
        \* r * 2^x without the trailing zeros of r
        Strip(r, x) ==
            LET Cut(last) == Result(SubSeq(r, 1, last), x + (Len(r) - last))
            IN  IF \A i \in 1..Len(r) : r[i] = 0 THEN Num(0)
                ELSE Cut(CHOOSE i \in 1..Len(r) :
                            r[i] = 1 /\ \A j \in (i + 1)..Len(r) : r[j] = 0)
        \* head + 1
        Increment(head) ==
            LET Carry(zero) == [i \in 1..Len(head) |->
                                  IF i < zero THEN head[i]
                                  ELSE IF i = zero THEN 1 ELSE 0]
            IN  IF \A i \in 1..Len(head) : head[i] = 1
                THEN <<1>> \o [i \in 1..Len(head) |-> 0]
                ELSE Carry(CHOOSE i \in 1..Len(head) :
                              head[i] = 0
                                  /\ \A j \in (i + 1)..Len(head) : head[j] = 1)
        \* the bits kept and the bits rounded away
        Round(head, rest) ==
            Strip(IF /\ rest # <<>>
                     /\ rest[1] = 1
                     /\ \/ sticky
                        \/ \E i \in 2..Len(rest) : rest[i] = 1
                        \/ head # <<>> /\ head[Len(head)] = 1
                  THEN Increment(head) ELSE head,
                  e + Len(rest))
        \* room: how many bits are above 2^-1074
        Keep(bits, room) ==
            LET Split(keep) ==
                    Round(SubSeq(bits, 1, keep), SubSeq(bits, keep + 1, Len(bits)))
            IN  IF room < 0 THEN Num(0)
                ELSE Split(IF room > 53
                           THEN (IF Len(bits) > 53 THEN 53 ELSE Len(bits))
                           ELSE IF Len(bits) > room THEN room ELSE Len(bits))
        Leading(bits) == Keep(bits, Len(bits) + e + 1074)
    IN  Leading(SubSeq(b, IF \A i \in 1..Len(b) : b[i] = 0 THEN Len(b) + 1
                          ELSE CHOOSE i \in 1..Len(b) :
                                  b[i] = 1 /\ \A j \in 1..(i - 1) : b[j] = 0,
                       Len(b)))

\* The double nearest to n / q, for large numbers n > 0 and q > 0: the
\* quotient to 58 or 59 bits (t places after the point) by long division
\* in base 2^15 (the divisor shifted k bits to fill its leading digit, each
\* digit of the quotient taken from the leading digits, at most 2 too
\* large), what is left making it sticky.
RoundQuotient(neg, n, q) ==
    LET Places(t, lq) ==
            [t |-> t,
             n |-> (IF t > 0 THEN t ELSE 0)
                      + ((15 - ((lq + (IF t < 0 THEN 0 - t ELSE 0)) % 15)) % 15),
             q |-> (IF t < 0 THEN 0 - t ELSE 0)
                      + ((15 - ((lq + (IF t < 0 THEN 0 - t ELSE 0)) % 15)) % 15)]
        by == Places(58 - (Len(BitsOf(n)) - Len(BitsOf(q))), Len(BitsOf(q)))
        \* what the leading digits of r and of the divisor give
        Estimate(x, top) ==
            IF x \div top >= Base THEN Base - 1 ELSE x \div top
        Largest(S) == CHOOSE c \in S : \A x \in S : x <= c
        \* r divided by q0 * Base^j, digit by digit
        RECURSIVE Divide(_, _, _, _)
        Divide(r, q0, j, digits) ==
            LET Digit(d0, d) ==
                    Divide(BigSub(r, BigMul(d0, d)), q0, j - 1, <<d>> \o digits)
                Leading(d0, est) ==
                    Digit(d0, Largest({c \in (est - 2)..est :
                                          c >= 0 /\ BigGE(r, BigMul(d0, c))}))
                Divisor(d0) ==
                    Leading(d0,
                            Estimate((IF Len(d0) + 1 <= Len(r)
                                      THEN r[Len(d0) + 1] * Base ELSE 0)
                                        + (IF Len(d0) <= Len(r)
                                           THEN r[Len(d0)] ELSE 0),
                                     q0[Len(q0)]))
            IN  IF j < 0
                THEN RoundBits(neg, BitsOf(Normal(digits)), 0 - by.t, r # <<>>)
                ELSE Divisor([i \in 1..j |-> 0] \o q0)
    IN  Divide(BigShift(n, by.n), BigShift(q, by.q), 3, <<>>)

\* The sign, the significand (a large number) and the binary exponent of a
\* finite double that is not 0.
RECURSIVE Parts(_)
Parts(v) ==
    LET Lowest(g) == [n |-> Abs(v.n) \div g, d |-> Denominator(v) \div g]
        r == Lowest(GCD(Abs(v.n), Denominator(v)))
    IN  IF "m" \in DOMAIN v
        THEN [neg |-> v.neg, m |-> FromBits(v.m), e |-> v.e]
        ELSE IF \E j \in 0..30 : r.d = Pow(2, j)
             THEN [neg |-> v.n < 0, m |-> FromInt(r.n),
                   e |-> 0 - (CHOOSE j \in 0..30 : r.d = Pow(2, j))]
        ELSE Parts(RoundQuotient(v.n < 0, FromInt(r.n), FromInt(r.d)))

\* A fraction of integers so small that a product by 4 or 9, a sum and a
\* rounding of such fractions are exact in doubles.
IsSmall(v) ==
    /\ v.t = "number"
    /\ "n" \in DOMAIN v
    /\ \E j \in 0..8 : Denominator(v) = Pow(2, j)
    /\ Abs(v.n) < Pow(2, 16)

\* WhiteSpace and LineTerminator of JavaScript: what String.prototype.trim
\* and Number() strip.  (U+2028, U+2029 and the space separators from U+2000
\* on cannot be written in a TLA+ string; no text of the model holds them.)
WhiteSpace ==
    {"\t", "\n", "", "\f", "\r", " ", " ", " ", "﻿"}

\* String.prototype.trimStart, trimEnd and trim.
TrimStart(s) ==
    LET k == IF \A i \in 1..Len(s) : s[i] \in WhiteSpace THEN Len(s) + 1
             ELSE CHOOSE i \in 1..Len(s) :
                    s[i] \notin WhiteSpace
                        /\ \A j \in 1..(i - 1) : s[j] \in WhiteSpace
    IN  SubSeq(s, k, Len(s))

TrimEnd(s) ==
    LET k == IF \A i \in 1..Len(s) : s[i] \in WhiteSpace THEN 0
             ELSE CHOOSE i \in 1..Len(s) :
                    s[i] \notin WhiteSpace
                        /\ \A j \in (i + 1)..Len(s) : s[j] \in WhiteSpace
    IN  SubSeq(s, 1, k)

Trim(s) == TrimEnd(TrimStart(s))

Digits == <<"0", "1", "2", "3", "4", "5", "6", "7", "8", "9">>

IsDigit(c) == \E i \in 1..10 : Digits[i] = c

DigitVal(c) == (CHOOSE i \in 1..10 : Digits[i] = c) - 1

RECURSIVE DecimalVal(_)
DecimalVal(s) ==
    IF s = <<>> THEN 0
    ELSE 10 * DecimalVal(SubSeq(s, 1, Len(s) - 1)) + DigitVal(s[Len(s)])

AllDigits(s) == \A i \in 1..Len(s) : IsDigit(s[i])

\* The digits of a radix (2, 8 or 16), upper and lower case.
HexLower == Digits \o <<"a", "b", "c", "d", "e", "f">>
HexUpper == Digits \o <<"A", "B", "C", "D", "E", "F">>

IsRadixDigit(c, radix) ==
    \E i \in 1..radix : HexLower[i] = c \/ HexUpper[i] = c

RadixDigitVal(c) ==
    (CHOOSE i \in 1..16 : HexLower[i] = c \/ HexUpper[i] = c) - 1

RECURSIVE RadixVal(_, _)
RadixVal(s, radix) ==
    IF s = <<>> THEN 0
    ELSE radix * RadixVal(SubSeq(s, 1, Len(s) - 1), radix)
            + RadixDigitVal(s[Len(s)])

\* The radix a NonDecimalIntegerLiteral prefix names, 0 for no such prefix.
RadixOf(u) ==
    IF Len(u) < 3 \/ u[1] # "0" THEN 0
    ELSE CASE u[2] \in {"x", "X"} -> 16
           [] u[2] \in {"o", "O"} -> 8
           [] u[2] \in {"b", "B"} -> 2
           [] OTHER -> 0

\* The position of the first character of s that is in set, 0 for none.
IndexOf(s, set) ==
    IF \A i \in 1..Len(s) : s[i] \notin set THEN 0
    ELSE CHOOSE i \in 1..Len(s) :
            s[i] \in set /\ \A j \in 1..(i - 1) : s[j] \notin set

\* The decimal exponent of the leading digit of 2^1024 - 2^970, the least
\* value that rounds to Infinity, and of 2^-1075, the greatest value that
\* rounds to 0 (half the least double, the tie going to the even 0): a
\* value whose leading digit is beyond them is Infinity or 0.
MaxExponent == 308
MinExponent == 0 - 324

\* s without its leading zeros, and without its trailing zeros.
StripZeros(s) ==
    LET k == IF \A i \in 1..Len(s) : s[i] = "0" THEN Len(s) + 1
             ELSE CHOOSE i \in 1..Len(s) :
                    s[i] # "0" /\ \A j \in 1..(i - 1) : s[j] = "0"
    IN  SubSeq(s, k, Len(s))

StripTrailingZeros(s) ==
    LET k == IF \A i \in 1..Len(s) : s[i] = "0" THEN 0
             ELSE CHOOSE i \in 1..Len(s) :
                    s[i] # "0" /\ \A j \in (i + 1)..Len(s) : s[j] = "0"
    IN  SubSeq(s, 1, k)

\* The value of a run of exponent digits, held at cap when it is larger.
ExponentVal(s, cap) ==
    LET t == StripZeros(s)
    IN  IF Len(t) > 9 THEN cap
        ELSE IF DecimalVal(t) > cap THEN cap ELSE DecimalVal(t)

\* StrUnsignedDecimalLiteral: Infinity, or digits with an optional point and
\* an optional exponent part; sign is 1 or -1.  NaN for any other text.  The
\* value is the double nearest to sig * 10^e, its leading digit at the
\* decimal exponent lead: Infinity beyond MaxExponent and 0 below
\* MinExponent whatever the digits (the exponent is held at a cap so far
\* beyond the length of the text that a value which reaches the cap is one
\* of these).  Of more than 800 digits the rest only tells whether the
\* value is beyond the last of them (a double and the midpoint of two
\* doubles have fewer digits).
UnsignedDecimal(r, sign) ==
    LET \* digits: the digits from the first that is not 0; x: the exponent
        \* part; sig * 10^e is the value
        Significant(fp, digits, sig, x) ==
            [ok |-> TRUE, sig |-> sig,
             e |-> x - Len(fp) + (Len(digits) - Len(sig))]
        Digits10(fp, digits, x) ==
            Significant(fp, digits, StripTrailingZeros(digits), x)
        Literal(ip, fp, eDig, eNeg, hasE) ==
            IF ~(/\ AllDigits(ip) /\ AllDigits(fp)
                 /\ Len(ip) + Len(fp) > 0
                 /\ hasE => (eDig # <<>> /\ AllDigits(eDig)))
            THEN [ok |-> FALSE]
            ELSE Digits10(fp, StripZeros(ip \o fp),
                          IF eNeg THEN 0 - ExponentVal(eDig, Len(r) + 2000)
                          ELSE ExponentVal(eDig, Len(r) + 2000))
        Point(mant, expo, hasE, dot) ==
            Literal(IF dot = 0 THEN mant ELSE SubSeq(mant, 1, dot - 1),
                    IF dot = 0 THEN <<>> ELSE SubSeq(mant, dot + 1, Len(mant)),
                    IF expo # <<>> /\ Head(expo) \in {"+", "-"}
                    THEN Tail(expo) ELSE expo,
                    expo # <<>> /\ Head(expo) = "-",
                    hasE)
        Mantissa(mant, expo, hasE) ==
            Point(mant, expo, hasE, IndexOf(mant, {"."}))
        ExponentPart(ePos) ==
            Mantissa(IF ePos = 0 THEN r ELSE SubSeq(r, 1, ePos - 1),
                     IF ePos = 0 THEN <<>> ELSE SubSeq(r, ePos + 1, Len(r)),
                     ePos # 0)
        \* the double nearest to cut * 10^e1
        Nearest(cut, e1) ==
            LET RECURSIVE Val(_, _)
                Val(lo, hi) ==
                    IF hi - lo < 8 THEN FromInt(DecimalVal(SubSeq(cut, lo, hi)))
                    ELSE BigAdd(BigScale(Val(lo, (lo + hi) \div 2),
                                         hi - ((lo + hi) \div 2)),
                                Val(((lo + hi) \div 2) + 1, hi))
            IN  RoundQuotient(sign < 0,
                              BigScale(Val(1, Len(cut)),
                                       IF e1 > 0 THEN e1 ELSE 0),
                              BigScale(<<1>>, IF e1 < 0 THEN 0 - e1 ELSE 0))
        \* the value of the significant digits sig at the exponent e, the
        \* leading digit at the exponent lead
        Value(sig, e, lead) ==
            IF sig = <<>> THEN Num(0)
            ELSE IF lead > MaxExponent THEN Infinity(sign)
            ELSE IF lead < MinExponent THEN Num(0)
            ELSE IF Len(sig) <= 8 /\ e >= 0 /\ Len(sig) + e <= 8
                 THEN Ratio(sign * DecimalVal(sig) * Pow(10, e), 1)
            ELSE IF Len(sig) <= 8 /\ e < 0 /\ e >= -9
                 THEN Ratio(sign * DecimalVal(sig), Pow(10, 0 - e))
            ELSE Nearest(IF Len(sig) > 800
                         THEN SubSeq(sig, 1, 800) \o <<"1">> ELSE sig,
                         IF Len(sig) > 800 THEN e + (Len(sig) - 801) ELSE e)
        Parsed(p) ==
            IF ~p.ok THEN NaN ELSE Value(p.sig, p.e, Len(p.sig) - 1 + p.e)
    IN  IF r = <<"I", "n", "f", "i", "n", "i", "t", "y">> THEN Infinity(sign)
        ELSE Parsed(ExponentPart(IndexOf(r, {"e", "E"})))

\* StringToNumber (the StringNumericLiteral grammar): white space is
\* trimmed; the empty string is 0; 0x, 0o and 0b introduce an unsigned
\* integer of that radix; otherwise an optional sign and a decimal literal;
\* anything else is NaN.
StringToNumber(s) ==
    LET u == Trim(s)
        radix == RadixOf(u)
        signed == u # <<>> /\ Head(u) \in {"+", "-"}
    IN  IF u = <<>> THEN Num(0)
        ELSE IF radix # 0
             THEN (IF \A i \in 3..Len(u) : IsRadixDigit(u[i], radix)
                   THEN Ratio(RadixVal(SubSeq(u, 3, Len(u)), radix), 1)
                   ELSE NaN)
        ELSE UnsignedDecimal(IF signed THEN Tail(u) ELSE u,
                             IF signed /\ Head(u) = "-" THEN -1 ELSE 1)

RECURSIVE IntToString(_)
IntToString(k) ==
    IF k < 10 THEN <<Digits[k + 1]>>
    ELSE IntToString(k \div 10) \o <<Digits[(k % 10) + 1]>>

\* Number::toString(x) for radix 10: the shortest run of digits that reads
\* back as x, the nearest to x of that length, in decimal notation for
\* 1e-6 <= x < 1e21 and in exponent notation otherwise.  The digits by
\* free-format printing: x = f * 2^low with f of 53 bits (fewer for a
\* subnormal); r / s is what is left of x / 10^n, up / s and down / s are
\* the gaps to the midpoints above and below, which belong to x when its
\* significand is even; r10, up10 and down10 are these times 10.
NumberToString(v) ==
    LET \* k digits ds, the point after the first n of them
        Format(neg, ds, k, n) ==
            (IF neg THEN <<"-">> ELSE <<>>) \o
            (IF k <= n /\ n <= 21 THEN ds \o [i \in 1..(n - k) |-> "0"]
             ELSE IF 0 < n /\ n <= 21
                  THEN SubSeq(ds, 1, n) \o <<".">> \o SubSeq(ds, n + 1, k)
             ELSE IF -6 < n /\ n <= 0
                  THEN <<"0", ".">> \o [i \in 1..(0 - n) |-> "0"] \o ds
             ELSE <<ds[1]>> \o (IF k > 1 THEN <<".">> \o Tail(ds) ELSE <<>>)
                    \o <<"e", IF n > 0 THEN "+" ELSE "-">>
                    \o IntToString(Abs(n - 1)))
        Written(neg, d, n) ==
            Format(neg, [i \in 1..Len(d) |-> Digits[d[i] + 1]], Len(d), n)
        TooHigh(r, s, up, even) ==
            IF even THEN BigGE(BigAdd(r, up), s) ELSE ~BigGE(s, BigAdd(r, up))
        TooLow(r, down, even) ==
            IF even THEN BigGE(down, r) ELSE ~BigGE(r, down)
        RECURSIVE Generate(_, _, _, _, _)
        Generate(r10, s, up10, down10, even) ==
            LET Last(d, r1, low, high) ==
                    IF ~low /\ ~high
                    THEN <<d>> \o Generate(BigMul(r1, 10), s, BigMul(up10, 10),
                                           BigMul(down10, 10), even)
                    ELSE IF low /\ ~high THEN <<d>>
                    ELSE IF high /\ ~low THEN <<d + 1>>
                    ELSE IF BigMul(r1, 2) = s THEN <<d + (d % 2)>>
                    ELSE IF BigGE(BigMul(r1, 2), s) THEN <<d + 1>> ELSE <<d>>
                Left(d, r1) ==
                    Last(d, r1, TooLow(r1, down10, even),
                         TooHigh(r1, s, up10, even))
                Digit(d) == Left(d, BigSub(r10, BigMul(s, d)))
            IN  Digit(CHOOSE c \in 0..9 :
                        BigGE(r10, BigMul(s, c)) /\ ~BigGE(r10, BigMul(s, c + 1)))
        RECURSIVE Fix(_, _, _, _, _, _, _)
        Fix(neg, r, s, up, down, n, even) ==
            IF TooHigh(r, s, up, even)
            THEN Fix(neg, r, BigMul(s, 10), up, down, n + 1, even)
            ELSE IF ~TooHigh(BigMul(r, 10), s, BigMul(up, 10), even)
                 THEN Fix(neg, BigMul(r, 10), s, BigMul(up, 10),
                          BigMul(down, 10), n - 1, even)
            ELSE Written(neg,
                         Generate(BigMul(r, 10), s, BigMul(up, 10),
                                  BigMul(down, 10), even),
                         n)
        \* u is 2 when the gap below is half the gap above
        Gaps(neg, f, low, u, est) ==
            Fix(neg,
                BigScale(BigShift(BigMul(f, 2 * u), IF low > 0 THEN low ELSE 0),
                         IF est < 0 THEN 0 - est ELSE 0),
                BigScale(BigShift(<<2 * u>>, IF low < 0 THEN 0 - low ELSE 0),
                         IF est > 0 THEN est ELSE 0),
                BigScale(BigShift(<<u>>, IF low > 0 THEN low ELSE 0),
                         IF est < 0 THEN 0 - est ELSE 0),
                BigScale(BigShift(<<1>>, IF low > 0 THEN low ELSE 0),
                         IF est < 0 THEN 0 - est ELSE 0),
                est, f[1] % 2 = 0)
        Narrow(fb, low) ==
            IF Len(fb) = 53 /\ low > -1074 /\ \A i \in 2..53 : fb[i] = 0
            THEN 2 ELSE 1
        Significand(neg, f, low, est) ==
            Gaps(neg, f, low, Narrow(BitsOf(f), low), est)
        Lowest(p, len, low) ==
            Significand(p.neg, BigShift(p.m, p.e - low), low,
                        (((len + p.e - 1) * 30103) \div 100000) + 1)
        Length(p, len) ==
            Lowest(p, len, IF p.e + len - 53 < -1074 THEN -1074
                           ELSE p.e + len - 53)
        Double(p) == Length(p, Len(BitsOf(p.m)))
        \* v is a fraction of j decimal places and at most 10 digits: these
        \* are its shortest digits (two numbers of at most 15 digits are
        \* never the same double)
        IsShort(j) ==
            /\ Pow(10, j) % Denominator(v) = 0
            /\ Abs(v.n) <= 2147483647 \div (Pow(10, j) \div Denominator(v))
        Short(s, j) ==
            Format(v.n < 0, StripTrailingZeros(s), Len(StripTrailingZeros(s)),
                   Len(s) - j)
        Places(j) ==
            Short(IntToString(Abs(v.n) * (Pow(10, j) \div Denominator(v))), j)
    IN  IF IsInfinite(v)
        THEN (IF v.n < 0 THEN <<"-">> ELSE <<>>)
                \o <<"I", "n", "f", "i", "n", "i", "t", "y">>
        ELSE IF v = Num(0) THEN <<"0">>
        ELSE IF "n" \in DOMAIN v /\ \E j \in 0..9 : IsShort(j)
             THEN Places(CHOOSE j \in 0..9 :
                            IsShort(j) /\ \A i \in 0..(j - 1) : ~IsShort(i))
        ELSE Double(Parts(v))

\* What a conversion gives when it throws a TypeError.
TypeError == [t |-> "TypeError"]

\* OrdinaryToPrimitive(v) throws "Cannot convert object to primitive value":
\* an object parsed from JSON with an own property toString has no callable
\* toString, and the valueOf it inherits returns the object itself; an array
\* joins its elements, converting each one that is not undefined or null.
RECURSIVE ToPrimitiveThrows(_)
ToPrimitiveThrows(v) ==
    CASE v.t = "object" -> "toString" \in DOMAIN v.f
      [] v.t = "array" -> \E i \in 1..Len(v.a) : ToPrimitiveThrows(v.a[i])
      [] OTHER -> FALSE

\* ToString(v), as Array.prototype.join and ToPrimitive apply it: an array
\* is its elements joined by ",", an undefined or null element giving "";
\* TypeError when the conversion of v or of an element throws.
RECURSIVE JSToString(_)
RECURSIVE Join(_)
Join(a) ==
    IF \E i \in 1..Len(a) : ToPrimitiveThrows(a[i]) THEN TypeError
    ELSE IF a = <<>> THEN <<>>
    ELSE (IF a[1].t \in {"undefined", "null"} THEN <<>> ELSE JSToString(a[1]))
            \o (IF Len(a) > 1 THEN <<",">> \o Join(Tail(a)) ELSE <<>>)

JSToString(v) ==
    CASE v.t = "undefined" -> <<"u", "n", "d", "e", "f", "i", "n", "e", "d">>
      [] v.t = "null" -> <<"n", "u", "l", "l">>
      [] v.t = "NaN" -> <<"N", "a", "N">>
      [] v.t = "boolean" -> IF v.b THEN <<"t", "r", "u", "e">>
                            ELSE <<"f", "a", "l", "s", "e">>
      [] v.t = "number" -> NumberToString(v)
      [] v.t = "string" -> v.s
      [] v.t = "array" -> Join(v.a)
      [] OTHER -> IF ToPrimitiveThrows(v) THEN TypeError
                  ELSE <<"[", "o", "b", "j", "e", "c", "t", " ",
                         "O", "b", "j", "e", "c", "t", "]">>

\* Number(v): an array or an object is converted to its string first, which
\* may throw.
ToNumber(v) ==
    CASE v.t = "undefined" -> NaN
      [] v.t = "null" -> Num(0)
      [] v.t = "NaN" -> NaN
      [] v.t = "boolean" -> IF v.b THEN Num(Den) ELSE Num(0)
      [] v.t = "number" -> v
      [] ToPrimitiveThrows(v) -> TypeError
      [] OTHER -> StringToNumber(IF v.t = "string" THEN v.s ELSE JSToString(v))

\* v * k for a whole k > 0, and a + b, as doubles (part_003 line 182).
Times(v, k) ==
    LET Product(p) == RoundBits(p.neg, BitsOf(BigMul(p.m, k)), p.e, FALSE)
    IN  IF v = NaN \/ IsInfinite(v) \/ v = Num(0) THEN v
        ELSE IF IsSmall(v) THEN Ratio(v.n * k, Denominator(v))
        ELSE Product(Parts(v))

Plus(a, b) ==
    LET Sum(sum, neg, e) ==
            IF sum = <<>> THEN Num(0)
            ELSE RoundBits(neg, BitsOf(sum), e, FALSE)
        \* x and y: the significands at the exponent e
        Add(p, q, x, y, e) ==
            Sum(IF p.neg = q.neg THEN BigAdd(x, y)
                ELSE IF BigGE(x, y) THEN BigSub(x, y) ELSE BigSub(y, x),
                IF p.neg = q.neg \/ BigGE(x, y) THEN p.neg ELSE q.neg,
                e)
        Align(p, q, e) ==
            Add(p, q, BigShift(p.m, p.e - e), BigShift(q.m, q.e - e), e)
        Operands(p, q) == Align(p, q, IF p.e < q.e THEN p.e ELSE q.e)
    IN  IF a = NaN \/ b = NaN THEN NaN
        ELSE IF IsInfinite(a)
             THEN (IF IsInfinite(b) /\ b # a THEN NaN ELSE a)
        ELSE IF IsInfinite(b) THEN b
        ELSE IF a = Num(0) THEN b
        ELSE IF b = Num(0) THEN a
        ELSE IF IsSmall(a) /\ IsSmall(b)
        THEN Ratio(a.n * Denominator(b) + b.n * Denominator(a),
                   Denominator(a) * Denominator(b))
        ELSE Operands(Parts(a), Parts(b))

\* Math.round: the nearest whole number, a tie going up (floor(x + 1/2),
\* computed exactly).  Of the bits b of the significand, f are after the
\* point; the first of them is the half.
MathRound(v) ==
    LET Whole(neg, k) ==
            IF k = <<>> THEN Num(0)
            ELSE RoundBits(neg, BitsOf(k), 0, FALSE)
        Floor(neg, b, f) ==
            Whole(neg,
                  IF /\ f <= Len(b)
                     /\ b[Len(b) - f + 1] = 1
                     /\ neg => \E i \in (Len(b) - f + 2)..Len(b) : b[i] = 1
                  THEN BigAdd(FromBits(SubSeq(b, 1, Len(b) - f)), <<1>>)
                  ELSE FromBits(SubSeq(b, 1, Len(b) - f)))
        Rounded(p) ==
            IF p.e >= 0 THEN RoundBits(p.neg, BitsOf(p.m), p.e, FALSE)
            ELSE Floor(p.neg, BitsOf(p.m), 0 - p.e)
    IN  IF v = NaN \/ IsInfinite(v) \/ v = Num(0) THEN v
        ELSE IF IsSmall(v)
        THEN Num(((2 * v.n + Denominator(v)) \div (2 * Denominator(v))) * Den)
        ELSE Rounded(Parts(v))

NutritionFields == {"calories", "protein", "carbs", "fat"}

(***************************************************************************)
(* The Cloud Function analyzeMealNutrition.                                *)
(***************************************************************************)
\* const isAuthorized = (token) => !!token.uid
isAuthorized(token) == Truthy(token.uid)

\* z.string().nullish()
IsNullishString(v) == v.t \in {"string", "null", "undefined"}

\* MealAnalysisInputSchema.safeParse(unsafeData).success
MealAnalysisInputSchema(data) ==
    /\ data.t = "object"
    /\ IsNullishString(data.f.description)
    /\ IsNullishString(data.f.imageBase64)
    /\ (Truthy(data.f.description) \/ Truthy(data.f.imageBase64))

\* The handler's gates, in the order of the code; "ok" when all pass.
HandlerGate_NoAuthCheck(a, data) ==
    IF ~MealAnalysisInputSchema(data) THEN "invalid-argument"
    ELSE IF a = Undefined THEN "ok"
    ELSE IF ~isAuthorized(a.f.token) THEN "permission-denied"
    ELSE "ok"

HandlerGate_SchemaFirst(a, data) ==
    IF ~MealAnalysisInputSchema(data) THEN "invalid-argument"
    ELSE IF a = Undefined THEN "unauthenticated"
    ELSE IF ~isAuthorized(a.f.token) THEN "permission-denied"
    ELSE "ok"

HandlerGate(a, data) ==
    IF a = Undefined THEN "unauthenticated"
    ELSE IF ~isAuthorized(a.f.token) THEN "permission-denied"
    ELSE IF ~MealAnalysisInputSchema(data) THEN "invalid-argument"
    ELSE "ok"

SystemMessage == [role |-> "system", kind |-> "instruction"]
TextTurn(d) == [role |-> "user", kind |-> "text", text |-> d]
ImageTurn(i) == [role |-> "user", kind |-> "image+text", image |-> i]

\* A prompt that drops the image turn when a description is given (not the
\* program's behaviour).
BuildMessages_TextWins(data) ==
    <<SystemMessage>>
        \o (IF Truthy(data.f.description)
            THEN <<TextTurn(data.f.description.s)>>
            ELSE IF Truthy(data.f.imageBase64)
                 THEN <<ImageTurn(data.f.imageBase64.s)>> ELSE <<>>)

\* The messages array built from the parsed payload.
BuildMessages(data) ==
    <<SystemMessage>>
        \o (IF Truthy(data.f.description)
            THEN <<TextTurn(data.f.description.s)>> ELSE <<>>)
        \o (IF Truthy(data.f.imageBase64)
            THEN <<ImageTurn(data.f.imageBase64.s)>> ELSE <<>>)

\* The content of a completion is a JavaScript value (undefined when there is
\* no choice, null, or a string).  A string's text is abstracted to what
\* JSON.parse makes of it: json = Undefined stands for a text that is not
\* JSON (JSON.parse throws), any other value for the document it denotes.
Text(json) == [t |-> "string", s |-> <<"j">>, json |-> json]
EmptyText == Str(<<>>)

\* result.<field> for the parsed document: a missing property, and any
\* property of a primitive or an array, is undefined.
Property(result, field) ==
    IF result.t = "object" /\ field \in DOMAIN result.f
    THEN result.f[field] ELSE Undefined

\* Number(x) || 0 (TypeError when Number(x) throws).
CoerceField(v) ==
    LET Coerced(n) == IF n = TypeError THEN TypeError ELSE OrElse(n, Num(0))
    IN  Coerced(ToNumber(v))

\* Lines 150-180: what the handler makes of a received content: the returned
\* analysis, or the code of the HttpsError it throws.
ParseContent(c) ==
    IF ~Truthy(c) THEN [error |-> "internal", result |-> Null]
    ELSE IF c.json = Undefined THEN [error |-> "internal", result |-> Null]
    ELSE IF c.json = Null THEN [error |-> "internal", result |-> Null]
    ELSE LET Coerced(fields) ==
                 IF \E fld \in NutritionFields : fields[fld] = TypeError
                 THEN [error |-> "internal", result |-> Null]
                 ELSE [error |-> "none", result |-> fields]
         IN  Coerced([fld \in NutritionFields |->
                         CoerceField(Property(c.json, fld))])

\* Inputs of one invocation.
AuthInputs ==
    {Undefined,
     Obj([uid |-> Str(<<>>), token |-> [uid |-> Str(<<>>)]]),
     Obj([uid |-> Str(<<"u">>), token |-> [uid |-> Str(<<"u">>)]])}

PayloadFieldInputs == {Undefined, Null, Str(<<>>), Str(<<"a">>), Num(Den)}

Payloads ==
    {Null} \cup
    {Obj([description |-> d, imageBase64 |-> i]) :
        d \in PayloadFieldInputs, i \in PayloadFieldInputs}

\* What the model may put in a field of its JSON object.
ModelFieldValues ==
    {Undefined, Null, Num(0 - Den), Num(0), Num(Den + 1), Bool(TRUE),
     Str(<<"a">>), Str(<<"1", "2">>), Str(<<"1", ".", "5">>),
     Arr(<<Bool(TRUE)>>), Obj([toString |-> Num(Den)])}

ModelDocuments ==
    {Null, Num(3 * Den), Str(<<"a">>), Arr(<<>>)} \cup
    {Obj(f) : f \in [NutritionFields -> ModelFieldValues]}

Contents ==
    {Undefined, Null, EmptyText, Text(Undefined)} \cup
    {Text(j) : j \in ModelDocuments}

HandlerIdle ==
    /\ hpc = "idle"
    /\ auth = Undefined
    /\ unsafeData = Null
    /\ messages = <<>>
    /\ modelCalls = 0
    /\ content = Undefined
    /\ hresult = Null
    /\ herror = "none"

HandlerInit ==
    /\ hpc = "entry"
    /\ auth \in AuthInputs
    /\ unsafeData \in Payloads
    /\ messages = <<>>
    /\ modelCalls = 0
    /\ content = Undefined
    /\ hresult = Null
    /\ herror = "none"

\* Lines 73-148: the gates, then the prompt and the model call.
HandlerEntry ==
    /\ hpc = "entry"
    /\ LET g == HandlerGate(auth, unsafeData)
       IN  IF g # "ok"
           THEN /\ hpc' = "thrown"
                /\ herror' = g
                /\ UNCHANGED <<messages, modelCalls>>
           ELSE /\ hpc' = "calling"
                /\ messages' = BuildMessages(unsafeData)
                /\ modelCalls' = modelCalls + 1
                /\ UNCHANGED herror
    /\ UNCHANGED <<auth, unsafeData, content, hresult>>
    /\ UNCHANGED <<clientVars, uiVars, sessionVars>>

\* Lines 150-173 (and the catch): the completion arrives.
ModelReplies ==
    /\ hpc = "calling"
    /\ \E c \in Contents :
          LET Parsed(r) ==
                  /\ content' = c
                  /\ hpc' = IF r.error = "none" THEN "returned" ELSE "thrown"
                  /\ herror' = r.error
                  /\ hresult' = r.result
          IN  Parsed(ParseContent(c))
    /\ UNCHANGED <<auth, unsafeData, messages, modelCalls>>
    /\ UNCHANGED <<clientVars, uiVars, sessionVars>>

\* Lines 174-180: openai.chat.completions.create rejects.
ModelThrows ==
    /\ hpc = "calling"
    /\ hpc' = "thrown"
    /\ herror' = "internal"
    /\ UNCHANGED <<auth, unsafeData, messages, modelCalls, content, hresult>>
    /\ UNCHANGED <<clientVars, uiVars, sessionVars>>

HandlerNext == HandlerEntry \/ ModelReplies \/ ModelThrows

(***************************************************************************)
(* The client API class: API.analyzeMealNutrition and API.requireUser.     *)
(* One call is a record: its position, its input, what it settled with,    *)
(* and how many auth-state subscriptions and callable invocations it made. *)
(***************************************************************************)
NoCall ==
    [pc |-> "none", input |-> Null, data |-> Null, error |-> "none",
     lookups |-> 0, rpcs |-> 0]

\* createApiError(code, message): the thrown object's code.
createApiError(code) == code

\* handleFirebaseError(error): the code of the ApiError it throws.
handleFirebaseError(code) ==
    CASE code = "auth/user-not-found" -> createApiError("user-not-found")
      [] code \in {"auth/wrong-password", "auth/invalid-email"} ->
            createApiError("invalid-credentials")
      [] code = "auth/email-already-in-use" ->
            createApiError("email-already-in-use")
      [] OTHER -> createApiError("operation-failed")

\* Lines 226-235: the input test, then requireUser() is awaited.
ClientStart_LookupFirst(input) ==
    [pc |-> "requireUser", input |-> input, data |-> Null, error |-> "none",
     lookups |-> 1, rpcs |-> 0]

ClientStart(input) ==
    IF ~Truthy(input.description) /\ ~Truthy(input.imageBase64)
    THEN [pc |-> "rejected", input |-> input, data |-> Null,
          error |-> createApiError("invalid-input"), lookups |-> 0, rpcs |-> 0]
    ELSE [pc |-> "requireUser", input |-> input, data |-> Null,
          error |-> "none", lookups |-> 1, rpcs |-> 0]

\* What the auth-state observer delivers first.
AuthEvents == {"user", "no-user", "error"}

\* Lines 172-192 and 235-243: the observer fires.  With a user the callable
\* is invoked; without one requireUser rejects and the catch rethrows the
\* coded error; on an observer error handleFirebaseError throws inside the
\* callback before reject is reached, so the promise stays pending.
ClientAuthEvent(c, ev) ==
    CASE ev = "user" -> [c EXCEPT !.pc = "rpc", !.rpcs = @ + 1]
      [] ev = "no-user" ->
            [c EXCEPT !.pc = "rejected",
                      !.error = createApiError("user-not-found")]
      [] OTHER -> [c EXCEPT !.pc = "pending"]

\* A NutritionAnalysis as the callable returns it.
Analysis(cal, p, cb, f) ==
    [calories |-> Num(cal), protein |-> Num(p), carbs |-> Num(cb),
     fat |-> Num(f)]

AnalysisResults == {Analysis(35 * Den, 3 * Den, Den, 2 * Den)}

\* How the callable settles: with data, with an error that carries a code
\* (a FunctionsError), or with an error that carries none.
RpcOutcomes ==
    {[kind |-> "data", data |-> r, code |-> "none"] : r \in AnalysisResults}
        \cup {[kind |-> "error", data |-> Null, code |-> "functions/internal"],
              [kind |-> "error", data |-> Null, code |-> "none"]}

\* Lines 243-254: the callable settles; the catch rethrows an error that has
\* a code and replaces any other by analysis-failed.
ClientRpcSettles(c, o) ==
    IF o.kind = "data"
    THEN [c EXCEPT !.pc = "resolved", !.data = o.data]
    ELSE [c EXCEPT !.pc = "rejected",
                   !.error = IF o.code # "none" THEN o.code
                             ELSE createApiError("analysis-failed")]

ClientInputValues == {Undefined, Str(<<>>), Str(<<"a">>)}

ClientInputs ==
    [description : ClientInputValues, imageBase64 : ClientInputValues]

ClientIdle ==
    /\ call = NoCall
    /\ ncalls = 0

\* A caller invokes api.analyzeMealNutrition(input).
ClientInvoke ==
    /\ call.pc \in {"none", "resolved", "rejected"}
    /\ ncalls < MaxCalls
    /\ \E input \in ClientInputs : call' = ClientStart(input)
    /\ ncalls' = ncalls + 1
    /\ UNCHANGED <<handlerVars, uiVars, sessionVars>>

ClientObserverFires ==
    /\ call.pc = "requireUser"
    /\ \E ev \in AuthEvents : call' = ClientAuthEvent(call, ev)
    /\ UNCHANGED ncalls
    /\ UNCHANGED <<handlerVars, uiVars, sessionVars>>

ClientCallableSettles ==
    /\ call.pc = "rpc"
    /\ \E o \in RpcOutcomes : call' = ClientRpcSettles(call, o)
    /\ UNCHANGED ncalls
    /\ UNCHANGED <<handlerVars, uiVars, sessionVars>>

ClientNext == ClientInvoke \/ ClientObserverFires \/ ClientCallableSettles


(***************************************************************************)
(* The API module (api/index.ts) and the session methods of the API class  *)
(* (api.ts): getAPI, requireUser and register.                             *)
(***************************************************************************)
\* The module before any getAPI() call: let api = null.
SessionIdle ==
    /\ api = 0
    /\ constructed = 0
    /\ gets = <<>>
    /\ requires = <<>>
    /\ regs = <<>>
    /\ logged = 0

\* The module once a route loader has awaited getAPI(): one instance exists.
SessionLoaded ==
    /\ api = 1
    /\ constructed = 1
    /\ gets = <<>>
    /\ requires = <<>>
    /\ regs = <<>>
    /\ logged = 0

\* index.ts lines 8-12: getAPI() up to its first await: the cached instance
\* is returned, or the dynamic import of ./api is awaited.
getAPIStart(a) ==
    IF a # 0 THEN [pc |-> "resolved", instance |-> a]
    ELSE [pc |-> "importing", instance |-> 0]

\* A caller invokes getAPI().
GetAPICall ==
    /\ Len(gets) < MaxGets
    /\ gets' = Append(gets, getAPIStart(api))
    /\ UNCHANGED <<api, constructed, requires, regs, logged>>
    /\ UNCHANGED <<handlerVars, clientVars, uiVars>>

\* index.ts lines 12-14: the import has resolved for call i (the calls
\* waiting for it are resumed in the order they were made): api = new API()
\* and the new instance is returned.
GetAPIImported(i) ==
    /\ gets[i].pc = "importing"
    /\ \A k \in 1..(i - 1) : gets[k].pc # "importing"
    /\ constructed' = constructed + 1
    /\ api' = constructed + 1
    /\ gets' = [gets EXCEPT ![i] = [pc |-> "resolved",
                                    instance |-> constructed + 1]]
    /\ UNCHANGED <<requires, regs, logged>>
    /\ UNCHANGED <<handlerVars, clientVars, uiVars>>

GetAPINext == GetAPICall \/ \E i \in 1..Len(gets) : GetAPIImported(i)

\* The Firebase users the auth state can hold.
FirebaseUsers ==
    {[uid |-> Str(<<"u">>), email |-> Str(<<"e">>), displayName |-> Null],
     [uid |-> Str(<<"u">>), email |-> Null, displayName |-> Str(<<"n">>)]}

\* api.ts lines 54-59: mapFirebaseUser (email ?? "").
mapFirebaseUser(firebaseUser) ==
    [id |-> firebaseUser.uid,
     email |-> IF firebaseUser.email \in {Null, Undefined} THEN Str(<<>>)
               ELSE firebaseUser.email,
     displayName |-> firebaseUser.displayName]

\* What the auth-state observer delivers first to a subscription: a user,
\* null, or an error with its code.
ObserverEvents ==
    {[kind |-> "user", user |-> u, code |-> "none"] : u \in FirebaseUsers}
        \cup {[kind |-> "no-user", user |-> Null, code |-> "none"],
              [kind |-> "error", user |-> Null,
               code |-> "auth/network-request-failed"]}

\* api.ts lines 172-192: what the promise of requireUser() is after the
\* observer delivered ev.  The next callback resolves with the mapped user or
\* rejects with user-not-found.  The error callback evaluates
\* handleFirebaseError(error), which throws, before reject is called: the
\* exception leaves the callback and the promise is left pending.
requireUser(ev) ==
    CASE ev.kind = "user" ->
            [pc |-> "resolved", ev |-> ev, user |-> mapFirebaseUser(ev.user),
             error |-> "none", thrown |-> "none", unsubscribed |-> TRUE]
      [] ev.kind = "no-user" ->
            [pc |-> "rejected", ev |-> ev, user |-> Null,
             error |-> createApiError("user-not-found"), thrown |-> "none",
             unsubscribed |-> TRUE]
      [] OTHER ->
            [pc |-> "pending", ev |-> ev, user |-> Null, error |-> "none",
             thrown |-> handleFirebaseError(ev.code), unsubscribed |-> TRUE]

Subscribed ==
    [pc |-> "subscribed", ev |-> Null, user |-> Null, error |-> "none",
     thrown |-> "none", unsubscribed |-> FALSE]

\* A caller invokes api.requireUser(): onAuthStateChanged subscribes.
RequireUserCall ==
    /\ api # 0
    /\ Len(requires) < MaxRequires
    /\ requires' = Append(requires, Subscribed)
    /\ UNCHANGED <<api, constructed, gets, regs, logged>>
    /\ UNCHANGED <<handlerVars, clientVars, uiVars>>

\* The observer delivers an event to subscription k (the callbacks
\* unsubscribe first, so no later event reaches it).
RequireUserObserverFires(k) ==
    /\ requires[k].pc = "subscribed"
    /\ ~requires[k].unsubscribed
    /\ \E ev \in ObserverEvents :
          requires' = [requires EXCEPT ![k] = requireUser(ev)]
    /\ UNCHANGED <<api, constructed, gets, regs, logged>>
    /\ UNCHANGED <<handlerVars, clientVars, uiVars>>

RequireUserNext ==
    RequireUserCall \/ \E k \in 1..Len(requires) : RequireUserObserverFires(k)

\* The displayName of the RegisterCredentials.
DisplayNames == {Undefined, Str(<<>>), Str(<<"n">>)}

\* How createUserWithEmailAndPassword settles: "ok" or the code of its error.
CreateOutcomes ==
    {"ok", "auth/email-already-in-use", "auth/invalid-email",
     "auth/weak-password"}

\* The user of the credential of a new account.
NewAccount == [uid |-> Str(<<"u">>), email |-> Str(<<"e">>), displayName |-> Null]

\* api.ts lines 136-157: createUserWithEmailAndPassword has settled.  On an
\* error the outer catch throws handleFirebaseError(error); with a displayName
\* updateProfile is awaited; otherwise the mapped user is returned.
registerCreated(r, o) ==
    IF o # "ok"
    THEN [r EXCEPT !.pc = "rejected", !.error = handleFirebaseError(o)]
    ELSE IF Truthy(r.displayName)
         THEN [r EXCEPT !.pc = "updating", !.created = TRUE,
                        !.account = NewAccount]
         ELSE [r EXCEPT !.pc = "resolved", !.created = TRUE,
                        !.account = NewAccount,
                        !.user = mapFirebaseUser(NewAccount)]

\* A register whose failed updateProfile goes to the outer catch (not the
\* program's behaviour).
registerProfileSettled_Rethrows(r, ok) ==
    IF ok
    THEN LET u == [r.account EXCEPT !.displayName = r.displayName]
         IN  [r EXCEPT !.pc = "resolved", !.account = u,
                       !.user = mapFirebaseUser(u)]
    ELSE [r EXCEPT !.pc = "rejected", !.updateFailed = TRUE,
                   !.error = handleFirebaseError("auth/network-request-failed")]

\* api.ts lines 143-154: updateProfile has settled.  Its error is caught and
\* logged by the inner catch; the mapped user is returned either way.
registerProfileSettled(r, ok) ==
    IF ok
    THEN LET u == [r.account EXCEPT !.displayName = r.displayName]
         IN  [r EXCEPT !.pc = "resolved", !.account = u,
                       !.user = mapFirebaseUser(u)]
    ELSE [r EXCEPT !.pc = "resolved", !.updateFailed = TRUE,
                   !.logs = @ + 1, !.user = mapFirebaseUser(r.account)]

\* A caller invokes api.register({email, password, displayName}).
RegisterCall ==
    /\ api # 0
    /\ Len(regs) < MaxRegs
    /\ \E dn \in DisplayNames :
          regs' = Append(regs, [pc |-> "creating", displayName |-> dn,
                                created |-> FALSE, account |-> Null,
                                updateFailed |-> FALSE, logs |-> 0,
                                user |-> Null, error |-> "none"])
    /\ UNCHANGED <<api, constructed, gets, requires, logged>>
    /\ UNCHANGED <<handlerVars, clientVars, uiVars>>

RegisterCreateSettles(i) ==
    /\ regs[i].pc = "creating"
    /\ \E o \in CreateOutcomes :
          regs' = [regs EXCEPT ![i] = registerCreated(@, o)]
    /\ UNCHANGED <<api, constructed, gets, requires, logged>>
    /\ UNCHANGED <<handlerVars, clientVars, uiVars>>

RegisterUpdateSettles(i) ==
    /\ regs[i].pc = "updating"
    /\ \E ok \in BOOLEAN :
          /\ regs' = [regs EXCEPT ![i] = registerProfileSettled(@, ok)]
          /\ logged' = logged + regs'[i].logs
    /\ UNCHANGED <<api, constructed, gets, requires>>
    /\ UNCHANGED <<handlerVars, clientVars, uiVars>>

RegisterNext ==
    \/ RegisterCall
    \/ \E i \in 1..Len(regs) : RegisterCreateSettles(i)
    \/ \E i \in 1..Len(regs) : RegisterUpdateSettles(i)

(***************************************************************************)
(* The Dashboard view.  Every await of analyzeMeal and saveNutritionData   *)
(* is a step boundary; buttons that are disabled, loading or not rendered  *)
(* take no click.                                                          *)
(***************************************************************************)
FileKinds == {"image", "empty", "unreadable"}

UploadFile(kind) == [originFileObj |-> TRUE, kind |-> kind]

\* The text the user can have typed into the description.
MessageInputs == {Str(<<>>), Str(<<" ">>), Str(<<"a">>)}

ValidationMessage ==
    "Please provide either a meal description or upload an image"

Placeholder == <<"I", "m", "g">>

EmptyForm == [fld \in NutritionFields |-> Undefined]

\* s.split(sep): the segments of s between the occurrences of sep.
RECURSIVE Split(_, _)
Split(s, sep) ==
    IF \A i \in 1..Len(s) : s[i] # sep THEN <<s>>
    ELSE LET k == CHOOSE i \in 1..Len(s) :
                    s[i] = sep /\ \A j \in 1..(i - 1) : s[j] # sep
         IN  <<SubSeq(s, 1, k - 1)>> \o Split(SubSeq(s, k + 1, Len(s)), sep)

\* reader.result for a readable file: a data URL, prefix then "," then the
\* base64 payload (empty for a file of no bytes).
DataURL(kind) ==
    IF kind = "image" THEN <<"d", ":", ";", ",", "a">>
    ELSE <<"d", ":", ";", ",">>

\* Lines 125-130: result.split(",")[1]
Base64Of(result) ==
    LET parts == Split(result, ",")
    IN  IF Len(parts) >= 2 THEN Str(parts[2]) ELSE Undefined

\* A test that refuses only an absent or empty description (not the
\* program's behaviour: it does not trim).
SubmissionRefused_NoTrim(m, files) ==
    /\ ~Truthy(m)
    /\ Len(files) = 0

\* Lines 189-192: the test of onSubmit that refuses the submission.
SubmissionRefused(m, files) ==
    /\ (~Truthy(m) \/ Trim(m.s) = <<>>)
    /\ Len(files) = 0

\* Lines 97-100: the description handed to the client.
DescriptionOf(m) == IF Truthy(m) /\ Trim(m.s) # <<>> THEN m ELSE Undefined

\* An Analyze Meal button that is loading during an analysis but is not
\* disabled while a result is held (not the program's button).
AnalyzeButtonLoadingOnly == ~analyzingMeal

\* Lines 299-307: the Analyze Meal button takes a click: it is not loading
\* (loading={analyzingMeal}) and not disabled
\* (disabled={nutritionData !== null}).

AnalyzeButtonEnabled == ~analyzingMeal /\ nutritionData = Null

\* Lines 320-342 and 412-418: a save button (Save Meal in edit mode, Save As
\* Is otherwise) is rendered and not loading.
SaveButtonAlways == ~submitLoading

\* Save buttons that take a click while a save is loading (not the
\* program's behaviour).
SaveButtonWhileLoading == nutritionData # Null

SaveButtonEnabled == nutritionData # Null /\ ~submitLoading

\* Lines 395-411: the Cancel button is rendered.
CancelButtonShown == nutritionData # Null /\ ~editingNutrition

\* Lines 175-185: recalculateCalories, in the arithmetic of doubles.
\* The operands of * are converted by ToNumber; a conversion that throws
\* leaves the form as it was.
recalculateCalories(values) ==
    LET Recalculated(protein, carbs, fat) ==
            IF TypeError \in {protein, carbs, fat} THEN values
            ELSE [values EXCEPT !.calories =
                    MathRound(Plus(Plus(Times(protein, 4), Times(carbs, 4)),
                                   Times(fat, 9)))]
    IN  Recalculated(ToNumber(OrElse(values.protein, Num(0))),
                     ToNumber(OrElse(values.carbs, Num(0))),
                     ToNumber(OrElse(values.fat, Num(0))))

\* Lines 347-356: onValuesChange.
onValuesChange(values, editing) ==
    IF editing /\ (values.protein # Undefined \/ values.carbs # Undefined
                     \/ values.fat # Undefined)
    THEN recalculateCalories(values)
    ELSE values

\* Lines 138-153: the MealWithoutId built by saveNutritionData.
BuildMeal(m, values) ==
    [userId |-> Str(<<"u">>),
     meal |-> OrElse(m, Str(Placeholder)),
     calories |-> values.calories,
     protein |-> values.protein,
     carbs |-> values.carbs,
     fat |-> values.fat,
     dateAdded |-> Str(<<"t">>)]

\* A schema that checks the three strings only (not the program's schema).
MealWithoutIdSchema_StringsOnly(meal) ==
    /\ meal.userId.t = "string"
    /\ meal.meal.t = "string"
    /\ meal.dateAdded.t = "string"

\* MealWithoutIdSchema.parse(data) succeeds (mealConverter.toFirestore).
MealWithoutIdSchema(meal) ==
    /\ meal.userId.t = "string"
    /\ meal.meal.t = "string"
    /\ meal.dateAdded.t = "string"
    /\ \A fld \in NutritionFields : meal[fld].t = "number"

DoneRun == [pc |-> "done", message |-> Undefined, files |-> <<>>,
            call |-> NoCall]

DashboardIdle ==
    /\ fileList = <<>>
    /\ message = Undefined
    /\ submitLoading = FALSE
    /\ analyzingMeal = FALSE
    /\ nutritionData = Null
    /\ editingNutrition = FALSE
    /\ validationError = "null"
    /\ form = EmptyForm
    /\ toast = "none"
    /\ runs = <<>>
    /\ saves = <<>>
    /\ store = <<>>
    /\ heldRun = 0
    /\ nedits = 0
    /\ cancelled = {}
    /\ sentDescription = Undefined
    /\ logouts = <<>>

\* A continuation is ready to run: an await whose promise is already settled
\* (getAPI() with the instance cached, a client call or an addMeal that has
\* settled).  It runs as a microtask, before the browser delivers any other
\* event, so no click, input or network event is taken while one is ready.
ContinuationReady ==
    \/ \E i \in 1..Len(runs) :
          \/ runs[i].pc = "getAPI"
          \/ runs[i].pc = "client" /\ runs[i].call.pc \in {"resolved", "rejected"}
    \/ \E j \in 1..Len(saves) :
          \/ saves[j].pc = "getAPI"
          \/ saves[j].pc = "addMeal" /\ saves[j].write = "refused"

\* The Dashboard is on screen: no navigation to "/" has replaced it by the
\* Login view.  A view that is gone takes no click or input; the steps of
\* the calls it started still run, and the state variables then hold what
\* the handlers last set.
Mounted == \A l \in 1..Len(logouts) : logouts[l].pc # "left"

\* The user types into (or clears) the description.
TypeMessage ==
    /\ Mounted
    /\ ~ContinuationReady
    /\ nutritionData = Null
    /\ \E m \in MessageInputs : message' = m /\ m # message
    /\ UNCHANGED <<fileList, submitLoading, analyzingMeal, nutritionData,
                   editingNutrition, validationError, form, toast, runs,
                   saves, store, heldRun, cancelled, nedits>>
    /\ UNCHANGED <<sentDescription, logouts>>
    /\ UNCHANGED <<handlerVars, clientVars, sessionVars>>

\* Lines 203-207: handleFileChange, for a file added or the file removed.
handleFileChange ==
    /\ Mounted
    /\ ~ContinuationReady
    /\ nutritionData = Null
    /\ \E info \in {<<>>} \cup {fileList \o <<UploadFile(k)>> : k \in FileKinds} :
          /\ fileList' = IF info = <<>> THEN <<>> ELSE <<info[Len(info)]>>
          /\ fileList' # fileList
    /\ UNCHANGED <<message, submitLoading, analyzingMeal, nutritionData,
                   editingNutrition, validationError, form, toast, runs,
                   saves, store, heldRun, cancelled, nedits>>
    /\ UNCHANGED <<sentDescription, logouts>>
    /\ UNCHANGED <<handlerVars, clientVars, sessionVars>>

\* Lines 187-201 and 81-86: onSubmit, and analyzeMeal up to await getAPI().
onSubmit ==
    /\ Mounted
    /\ ~ContinuationReady
    /\ AnalyzeButtonEnabled
    /\ IF SubmissionRefused(message, fileList)
       THEN /\ validationError' = ValidationMessage
            /\ UNCHANGED <<analyzingMeal, nutritionData, runs, heldRun>>
       ELSE /\ Len(runs) < MaxRuns
            /\ validationError' = "null"
            /\ analyzingMeal' = TRUE
            /\ nutritionData' = Null
            /\ heldRun' = 0
            /\ runs' = Append(runs, [pc |-> "getAPI", message |-> message,
                                     files |-> fileList, call |-> NoCall])
    /\ UNCHANGED <<fileList, message, submitLoading, editingNutrition, form,
                   toast, saves, store, cancelled, nedits>>
    /\ UNCHANGED <<sentDescription, logouts>>
    /\ UNCHANGED <<handlerVars, clientVars, sessionVars>>

\* The call api.analyzeMealNutrition({description, imageBase64}) of line 102.
CallClient(r, imageBase64) ==
    [r EXCEPT !.pc = "client",
              !.call = ClientStart([description |-> DescriptionOf(r.message),
                                    imageBase64 |-> imageBase64])]

\* An analyzeMeal that starts the encoder without awaiting it and calls the
\* client at once (not the program's behaviour).
analyzeMealGotAPI_NoAwait(i) ==
    /\ runs[i].pc = "getAPI"
    /\ runs' = [runs EXCEPT ![i] = CallClient(@, Undefined)]
    /\ UNCHANGED <<fileList, message, submitLoading, analyzingMeal,
                   nutritionData, editingNutrition, validationError, form,
                   toast, saves, store, heldRun, cancelled, nedits>>
    /\ UNCHANGED <<sentDescription, logouts>>
    /\ UNCHANGED <<handlerVars, clientVars, sessionVars>>

\* Lines 86-94 (and 96-105 without a file): getAPI() has resolved.
analyzeMealGotAPI(i) ==
    /\ runs[i].pc = "getAPI"
    /\ runs' = [runs EXCEPT ![i] =
                  IF Len(@.files) > 0 /\ @.files[1].originFileObj
                  THEN [@ EXCEPT !.pc = "encoding"]
                  ELSE CallClient(@, Undefined)]
    /\ UNCHANGED <<fileList, message, submitLoading, analyzingMeal,
                   nutritionData, editingNutrition, validationError, form,
                   toast, saves, store, heldRun, cancelled, nedits>>
    /\ UNCHANGED <<sentDescription, logouts>>
    /\ UNCHANGED <<handlerVars, clientVars, sessionVars>>

\* Lines 121-133 and 96-105: the FileReader loads the file.
analyzeMealEncoded(i) ==
    /\ ~ContinuationReady
    /\ runs[i].pc = "encoding"
    /\ runs[i].files[1].kind # "unreadable"
    /\ runs' = [runs EXCEPT ![i] =
                  CallClient(@, Base64Of(DataURL(@.files[1].kind)))]
    /\ UNCHANGED <<fileList, message, submitLoading, analyzingMeal,
                   nutritionData, editingNutrition, validationError, form,
                   toast, saves, store, heldRun, cancelled, nedits>>
    /\ UNCHANGED <<sentDescription, logouts>>
    /\ UNCHANGED <<handlerVars, clientVars, sessionVars>>

\* Lines 131 and 113-118: the FileReader fails; catch and finally.
analyzeMealEncodeFailed(i) ==
    /\ ~ContinuationReady
    /\ runs[i].pc = "encoding"
    /\ runs[i].files[1].kind = "unreadable"
    /\ runs' = [runs EXCEPT ![i] = DoneRun]
    /\ toast' = "Failed to analyze meal"
    /\ analyzingMeal' = FALSE
    /\ UNCHANGED <<fileList, message, submitLoading, nutritionData,
                   editingNutrition, validationError, form, saves, store,
                   heldRun, cancelled, nedits>>
    /\ UNCHANGED <<sentDescription, logouts>>
    /\ UNCHANGED <<handlerVars, clientVars, sessionVars>>

\* The auth-state observer of the run's client call fires.
analyzeMealObserverFires(i) ==
    /\ ~ContinuationReady
    /\ runs[i].pc = "client"
    /\ runs[i].call.pc = "requireUser"
    /\ \E ev \in AuthEvents :
          runs' = [runs EXCEPT ![i].call = ClientAuthEvent(@, ev)]
    /\ UNCHANGED <<fileList, message, submitLoading, analyzingMeal,
                   nutritionData, editingNutrition, validationError, form,
                   toast, saves, store, heldRun, cancelled, nedits>>
    /\ UNCHANGED <<sentDescription, logouts>>
    /\ UNCHANGED <<handlerVars, clientVars, sessionVars>>

\* The callable of the run's client call settles.
analyzeMealCallableSettles(i) ==
    /\ ~ContinuationReady
    /\ runs[i].pc = "client"
    /\ runs[i].call.pc = "rpc"
    /\ \E o \in RpcOutcomes :
          runs' = [runs EXCEPT ![i].call = ClientRpcSettles(@, o)]
    /\ UNCHANGED <<fileList, message, submitLoading, analyzingMeal,
                   nutritionData, editingNutrition, validationError, form,
                   toast, saves, store, heldRun, cancelled, nedits>>
    /\ UNCHANGED <<sentDescription, logouts>>
    /\ UNCHANGED <<handlerVars, clientVars, sessionVars>>

\* Lines 107-118: the client call has settled; try tail, catch, finally.
analyzeMealSettled(i) ==
    /\ runs[i].pc = "client"
    /\ runs[i].call.pc \in {"resolved", "rejected"}
    /\ IF runs[i].call.pc = "resolved"
       THEN /\ nutritionData' = runs[i].call.data
            /\ form' = runs[i].call.data
            /\ heldRun' = i
            /\ sentDescription' = runs[i].call.input.description
            /\ toast' = "Meal analyzed successfully!"
       ELSE /\ toast' = "Failed to analyze meal"
            /\ UNCHANGED <<nutritionData, form, heldRun, sentDescription>>
    /\ analyzingMeal' = FALSE
    /\ runs' = [runs EXCEPT ![i] = DoneRun]
    /\ UNCHANGED <<fileList, message, submitLoading, editingNutrition,
                   validationError, saves, store, cancelled, nedits, logouts>>
    /\ UNCHANGED <<handlerVars, clientVars, sessionVars>>

\* Lines 334-339: Edit Values.
ClickEditValues ==
    /\ Mounted
    /\ ~ContinuationReady
    /\ nutritionData # Null
    /\ ~editingNutrition
    /\ editingNutrition' = TRUE
    /\ UNCHANGED <<fileList, message, submitLoading, analyzingMeal,
                   nutritionData, validationError, form, toast, runs, saves,
                   store, heldRun, cancelled, nedits>>
    /\ UNCHANGED <<sentDescription, logouts>>
    /\ UNCHANGED <<handlerVars, clientVars, sessionVars>>

\* What the user can put into a field of the editor: a number >= 0
\* (InputNumber min={0}), or nothing (the field cleared, null).
EditorValues == {Null} \cup {Num(k) : k \in 0..MaxTicks}

\* Lines 343-392: the user changes protein, carbs or fat in the editor; the
\* Form reports it through onValuesChange.
EditField(fld, v) ==
    /\ Mounted
    /\ ~ContinuationReady
    /\ nutritionData # Null
    /\ editingNutrition
    /\ form[fld] # v
    /\ nedits < MaxEdits
    /\ nedits' = nedits + 1
    /\ form' = onValuesChange([form EXCEPT ![fld] = v], editingNutrition)
    /\ UNCHANGED <<fileList, message, submitLoading, analyzingMeal,
                   nutritionData, editingNutrition, validationError, toast,
                   runs, saves, store, heldRun, cancelled>>
    /\ UNCHANGED <<sentDescription, logouts>>
    /\ UNCHANGED <<handlerVars, clientVars, sessionVars>>

\* Lines 403-411: Cancel.
Cancel ==
    /\ Mounted
    /\ ~ContinuationReady
    /\ CancelButtonShown
    /\ nutritionData' = Null
    /\ form' = nutritionData
    /\ heldRun' = 0
    /\ cancelled' = cancelled \cup {heldRun}
    /\ UNCHANGED <<fileList, message, submitLoading, analyzingMeal,
                   editingNutrition, validationError, toast, runs, saves,
                   store, nedits>>
    /\ sentDescription' = Undefined
    /\ UNCHANGED logouts
    /\ UNCHANGED <<handlerVars, clientVars, sessionVars>>

\* Lines 135-141: Save Meal / Save As Is clicked; saveNutritionData up to
\* await getAPI().
saveNutritionData ==
    /\ Mounted
    /\ ~ContinuationReady
    /\ SaveButtonEnabled
    /\ Len(saves) < MaxSaves
    /\ saves' = Append(saves, [pc |-> "getAPI",
                               meal |-> BuildMeal(message, form),
                               write |-> "none",
                               run |-> heldRun])
    /\ UNCHANGED <<fileList, message, submitLoading, analyzingMeal,
                   nutritionData, editingNutrition, validationError, form,
                   toast, runs, store, heldRun, cancelled, nedits>>
    /\ UNCHANGED <<sentDescription, logouts>>
    /\ UNCHANGED <<handlerVars, clientVars, sessionVars>>

\* Lines 141-158 and api.ts 211-217: getAPI() has resolved; the loading flag
\* is set and addDoc is called, which runs mealConverter.toFirestore at once
\* and issues the write only when the schema accepts the meal.
saveGotAPI(j) ==
    /\ saves[j].pc = "getAPI"
    /\ submitLoading' = TRUE
    /\ saves' = [saves EXCEPT ![j].pc = "addMeal",
                              ![j].write = IF MealWithoutIdSchema(saves[j].meal)
                                           THEN "pending" ELSE "refused"]
    /\ UNCHANGED <<fileList, message, analyzingMeal, nutritionData,
                   editingNutrition, validationError, form, toast, runs,
                   store, heldRun, cancelled, nedits>>
    /\ UNCHANGED <<sentDescription, logouts>>
    /\ UNCHANGED <<handlerVars, clientVars, sessionVars>>

\* Lines 160-166 and 170-172: the write succeeded.
saveSucceeded(j) ==
    /\ ~ContinuationReady
    /\ saves[j].pc = "addMeal"
    /\ saves[j].write = "pending"
    /\ store' = Append(store, [doc |-> saves[j].meal, run |-> saves[j].run])
    /\ message' = Undefined
    /\ fileList' = <<>>
    /\ nutritionData' = Null
    /\ heldRun' = 0
    /\ editingNutrition' = FALSE
    /\ toast' = "Meal saved successfully!"
    /\ submitLoading' = FALSE
    /\ saves' = [saves EXCEPT ![j].pc = "saved", ![j].meal = Null,
                              ![j].write = "none"]
    /\ UNCHANGED <<analyzingMeal, validationError, form, runs, cancelled, nedits>>
    /\ sentDescription' = Undefined
    /\ UNCHANGED logouts
    /\ UNCHANGED <<handlerVars, clientVars, sessionVars>>

\* A failure path that also discards the held result, as the success path
\* does (not the program's behaviour; used to test C10).
saveFailed_ClearsState(j) ==
    /\ saves[j].write = "refused" \/ ~ContinuationReady
    /\ saves[j].pc = "addMeal"
    /\ toast' = "Failed to save meal"
    /\ submitLoading' = FALSE
    /\ saves' = [saves EXCEPT ![j].pc = "failed", ![j].meal = Null,
                              ![j].write = "none"]
    /\ nutritionData' = Null
    /\ editingNutrition' = FALSE
    /\ heldRun' = 0
    /\ UNCHANGED <<fileList, message, store>>
    /\ UNCHANGED <<analyzingMeal, validationError, form, runs, cancelled, nedits>>
    /\ sentDescription' = Undefined
    /\ UNCHANGED logouts
    /\ UNCHANGED <<handlerVars, clientVars, sessionVars>>

\* Lines 167-172 and api.ts 218-220: the schema refused the meal or the
\* store rejected the write; catch and finally.
saveFailed(j) ==
    /\ saves[j].write = "refused" \/ ~ContinuationReady
    /\ saves[j].pc = "addMeal"
    /\ toast' = "Failed to save meal"
    /\ submitLoading' = FALSE
    /\ saves' = [saves EXCEPT ![j].pc = "failed", ![j].meal = Null,
                              ![j].write = "none"]
    /\ UNCHANGED <<fileList, message, nutritionData, editingNutrition,
                   store, heldRun>>
    /\ UNCHANGED <<analyzingMeal, validationError, form, runs, cancelled, nedits>>
    /\ UNCHANGED <<sentDescription, logouts>>
    /\ UNCHANGED <<handlerVars, clientVars, sessionVars>>

\* api.ts lines 160-170: API.logout() once auth.signOut() has settled: it
\* resolves, or its catch throws the ApiError sign-out-failed.
logout(ok) ==
    IF ok THEN [pc |-> "resolved", error |-> "none"]
    ELSE [pc |-> "rejected", error |-> createApiError("sign-out-failed")]

LogoutUnchanged ==
    UNCHANGED <<fileList, message, submitLoading, analyzingMeal,
                nutritionData, editingNutrition, validationError, form, runs,
                saves, store, heldRun, nedits, cancelled, sentDescription>>

\* Lines 67-72 and 425-427: Logout clicked (the button is always rendered
\* and never disabled).  getAPI() returns the cached instance, so the
\* continuation runs at once, before any other event: api.logout() is called
\* and auth.signOut() is awaited.
handleLogout ==
    /\ Mounted
    /\ ~ContinuationReady
    /\ Len(logouts) < MaxLogouts
    /\ logouts' = Append(logouts, [pc |-> "signOut", error |-> "none"])
    /\ UNCHANGED toast
    /\ LogoutUnchanged
    /\ UNCHANGED <<handlerVars, clientVars, sessionVars>>

\* Lines 72-78: auth.signOut() settles and the continuation runs at once: the
\* success message and navigate("/"), or the catch and its error message.
logoutSettled(l) ==
    /\ ~ContinuationReady
    /\ logouts[l].pc = "signOut"
    /\ \E ok \in BOOLEAN :
          LET r == logout(ok)
          IN  IF r.pc = "resolved"
              THEN /\ toast' = "Successfully logged out!"
                   /\ logouts' = [logouts EXCEPT ![l] =
                                    [pc |-> "navigating", error |-> r.error]]
              ELSE /\ toast' = "Failed to logout"
                   /\ logouts' = [logouts EXCEPT ![l] =
                                    [pc |-> "failed", error |-> r.error]]
    /\ LogoutUnchanged
    /\ UNCHANGED <<handlerVars, clientVars, sessionVars>>

\* App.tsx lines 6-29: the loader of "/" has found no user and returned
\* null: the router shows Login in place of the Dashboard.  (While the
\* loader is pending, or when it redirects back, the Dashboard stays.)
LoginShown(l) ==
    /\ ~ContinuationReady
    /\ logouts[l].pc = "navigating"
    /\ logouts' = [logouts EXCEPT ![l].pc = "left"]
    /\ UNCHANGED toast
    /\ LogoutUnchanged
    /\ UNCHANGED <<handlerVars, clientVars, sessionVars>>

(***************************************************************************)
(* Specifications.                                                         *)
(***************************************************************************)
\* The Dashboard as the router shows it: its loader has awaited getAPI() and
\* requireUser(), so the API instance exists and a user is loaded.
Init == HandlerIdle /\ ClientIdle /\ DashboardIdle /\ SessionLoaded

Next ==
    \/ TypeMessage
    \/ handleFileChange
    \/ onSubmit
    \/ \E i \in 1..Len(runs) : analyzeMealGotAPI(i)
    \/ \E i \in 1..Len(runs) : analyzeMealEncoded(i)
    \/ \E i \in 1..Len(runs) : analyzeMealEncodeFailed(i)
    \/ \E i \in 1..Len(runs) : analyzeMealObserverFires(i)
    \/ \E i \in 1..Len(runs) : analyzeMealCallableSettles(i)
    \/ \E i \in 1..Len(runs) : analyzeMealSettled(i)
    \/ ClickEditValues
    \/ \E fld \in {"protein", "carbs", "fat"}, v \in EditorValues :
          EditField(fld, v)
    \/ Cancel
    \/ saveNutritionData
    \/ \E j \in 1..Len(saves) : saveGotAPI(j)
    \/ \E j \in 1..Len(saves) : saveSucceeded(j)
    \/ \E j \in 1..Len(saves) : saveFailed(j)
    \/ handleLogout
    \/ \E l \in 1..Len(logouts) : logoutSettled(l)
    \/ \E l \in 1..Len(logouts) : LoginShown(l)

Spec == Init /\ [][Next]_vars

\* One invocation of the Cloud Function, for every caller and payload.
InitHandler == HandlerInit /\ ClientIdle /\ DashboardIdle /\ SessionLoaded

SpecHandler == InitHandler /\ [][HandlerNext]_vars

\* Calls of api.analyzeMealNutrition with every input.
SpecClient == Init /\ [][ClientNext]_vars


\* The editor alone: the Dashboard holding an analysis result (any numbers
\* the callable may have returned, 1.9 g of fat among them), then Edit
\* Values and changes of fields, 0.1 among the values typed.
EditorResults ==
    {[Analysis(cal, p, cb, 0) EXCEPT !.fat = f] :
        cal \in {0, 35 * Den}, p \in 0..MaxTicks, cb \in 0..MaxTicks,
        f \in {Num(k) : k \in 0..MaxTicks} \cup {Ratio(19, 10)}}

InitEditor ==
    /\ HandlerIdle
    /\ ClientIdle
    /\ fileList = <<>>
    /\ message = Str(<<"a">>)
    /\ submitLoading = FALSE
    /\ analyzingMeal = FALSE
    /\ nutritionData \in EditorResults
    /\ editingNutrition = FALSE
    /\ validationError = "null"
    /\ form = nutritionData
    /\ toast = "Meal analyzed successfully!"
    /\ runs = <<DoneRun>>
    /\ saves = <<>>
    /\ store = <<>>
    /\ heldRun = 1
    /\ nedits = 0
    /\ cancelled = {}
    /\ sentDescription = Str(<<"a">>)
    /\ logouts = <<>>
    /\ SessionLoaded

EditorNext ==
    \/ ClickEditValues
    \/ \E fld \in {"protein", "carbs", "fat"},
          v \in EditorValues \cup {Ratio(1, 10)} :
          EditField(fld, v)

SpecEditor == InitEditor /\ [][EditorNext]_vars

\* Calls of getAPI() from a freshly loaded module.
InitGetAPI == HandlerIdle /\ ClientIdle /\ DashboardIdle /\ SessionIdle

SpecGetAPI == InitGetAPI /\ [][GetAPINext]_vars

\* Calls of api.requireUser() with every first observer event.
SpecRequireUser == Init /\ [][RequireUserNext]_vars

\* Calls of api.register() with every displayName and outcome.
SpecRegister == Init /\ [][RegisterNext]_vars

\* The analysis alone: submissions, their steps, and Cancel to release a
\* result.  The steps the platform performs are taken when they stay enabled:
\* a ready continuation runs, the FileReader reports load or error, the
\* auth-state observer delivers its first event, the callable settles.  The
\* user's own actions carry no such guarantee.
AnalyzeNext ==
    \/ TypeMessage
    \/ handleFileChange
    \/ onSubmit
    \/ \E i \in 1..Len(runs) : analyzeMealGotAPI(i)
    \/ \E i \in 1..Len(runs) : analyzeMealEncoded(i)
    \/ \E i \in 1..Len(runs) : analyzeMealEncodeFailed(i)
    \/ \E i \in 1..Len(runs) : analyzeMealObserverFires(i)
    \/ \E i \in 1..Len(runs) : analyzeMealCallableSettles(i)
    \/ \E i \in 1..Len(runs) : analyzeMealSettled(i)
    \/ Cancel

AnalyzeFairness ==
    /\ WF_vars(\E i \in 1..Len(runs) : analyzeMealGotAPI(i))
    /\ WF_vars(\E i \in 1..Len(runs) : analyzeMealEncoded(i))
    /\ WF_vars(\E i \in 1..Len(runs) : analyzeMealEncodeFailed(i))
    /\ WF_vars(\E i \in 1..Len(runs) : analyzeMealObserverFires(i))
    /\ WF_vars(\E i \in 1..Len(runs) : analyzeMealCallableSettles(i))
    /\ WF_vars(\E i \in 1..Len(runs) : analyzeMealSettled(i))

SpecAnalyze == Init /\ [][AnalyzeNext]_vars /\ AnalyzeFairness

(***************************************************************************)
(* Claims about the Cloud Function (checked under SpecHandler).            *)
(***************************************************************************)
\* A value the model gave as a number: a JSON number or a numeric string.
IsNumericValue(v) ==
    \/ v.t = "number"
    \/ v.t = "string" /\ Trim(v.s) # <<>> /\ StringToNumber(v.s) # NaN

\* C2 (as stated): whenever the handler returns a result, each of calories,
\* protein, carbs and fat is a non-negative number, and a field the model's
\* document omits or gives as a non-numeric value is returned as 0.
C2_ResultNonNegativeDefaultZero ==
    hpc = "returned" =>
        \A fld \in NutritionFields :
            /\ hresult[fld].t = "number"
            /\ hresult[fld].n >= 0
            /\ ~IsNumericValue(Property(content.json, fld))
                    => hresult[fld] = Num(0)

\* C4: an invocation without a caller identity ends in the HttpsError
\* "unauthenticated", whatever its payload, and neither builds a prompt nor
\* calls the model.
C4_UnauthenticatedAlwaysRejected ==
    (auth = Undefined /\ hpc \notin {"idle", "entry"}) =>
        /\ hpc = "thrown"
        /\ herror = "unauthenticated"
        /\ modelCalls = 0
        /\ messages = <<>>

\* C4 witness: an unauthenticated call with a payload the schema accepts has
\* been rejected.
C4_Witness ==
    /\ auth = Undefined
    /\ hpc = "thrown"
    /\ unsafeData.t = "object"
    /\ unsafeData.f.description = Str(<<"a">>)
    /\ unsafeData.f.imageBase64 = Str(<<"a">>)

\* A payload object with neither a description nor an image.
EmptyPayload(d) ==
    /\ d.t = "object"
    /\ d.f.description \in {Undefined, Null, Str(<<>>)}
    /\ d.f.imageBase64 \in {Undefined, Null, Str(<<>>)}

\* C8: the gates apply in the order unauthenticated, permission-denied,
\* invalid-argument, the first failing gate deciding the error; an
\* authenticated, authorized caller with an empty payload gets
\* invalid-argument and no model call is made.
C8_GatesInOrder ==
    hpc \notin {"idle", "entry"} =>
        /\ auth = Undefined
              => hpc = "thrown" /\ herror = "unauthenticated"
        /\ (auth # Undefined /\ auth.f.token.uid = Str(<<>>))
              => hpc = "thrown" /\ herror = "permission-denied"
        /\ (auth # Undefined /\ auth.f.token.uid # Str(<<>>)
                /\ EmptyPayload(unsafeData))
              => hpc = "thrown" /\ herror = "invalid-argument"
                    /\ modelCalls = 0
        /\ herror \in {"unauthenticated", "permission-denied",
                       "invalid-argument"} => modelCalls = 0

\* C8 witness: an authenticated, authorized caller with an empty payload was
\* rejected with invalid-argument.
C8_Witness ==
    /\ auth # Undefined
    /\ auth.f.token.uid = Str(<<"u">>)
    /\ EmptyPayload(unsafeData)
    /\ hpc = "thrown"
    /\ herror = "invalid-argument"

\* A content that is empty or whose text is not a structured JSON document
\* (an object; an array is let pass as structured).
NotStructured(c) ==
    \/ ~Truthy(c)
    \/ c.json.t \notin {"object", "array"}

\* C9 (as stated): when the model's output is empty or cannot be parsed as a
\* structured object the handler throws "internal" and returns no result,
\* and every failure after the model call was issued has that code.
C9_UnparsableIsAnalysisFailed ==
    /\ (hpc \in {"returned", "thrown"} /\ modelCalls > 0
            /\ NotStructured(content))
          => hpc = "thrown" /\ herror = "internal" /\ hresult = Null
    /\ (hpc = "thrown" /\ modelCalls > 0) => herror = "internal"

(***************************************************************************)
(* Claims about the client API (checked under SpecClient).                 *)
(***************************************************************************)
\* C1: a call of api.analyzeMealNutrition whose description and image are
\* both empty or absent is rejected with the code invalid-input and makes no
\* network call: no auth-state lookup and no callable invocation.
C1_EmptyRequestRejectedOffline ==
    (/\ call.pc # "none"
     /\ call.input.description \in {Undefined, Str(<<>>)}
     /\ call.input.imageBase64 \in {Undefined, Str(<<>>)})
        => /\ call.pc = "rejected"
           /\ call.error = "invalid-input"
           /\ call.lookups = 0
           /\ call.rpcs = 0

\* C1 witness: a call with an empty description and no image was rejected.
C1_Witness ==
    /\ call.pc = "rejected"
    /\ call.input.description = Str(<<>>)
    /\ call.input.imageBase64 = Undefined

(***************************************************************************)
(* Claims about the editor (checked under SpecEditor).                     *)
(***************************************************************************)
\* k is the whole number nearest to x / d (d > 0), a tie going up.
IsNearestWhole(k, x, d) ==
    /\ 2 * x - d < 2 * k * d
    /\ 2 * k * d <= 2 * x + d

\* A number >= 0 held as a fraction: what the user typed into a field, or
\* what the callable returned.
NonNegativeNumber(v) ==
    /\ v.t = "number"
    /\ "n" \in DOMAIN v
    /\ v.n >= 0
    /\ Denominator(v) > 0

\* C3 (as stated): a change of protein, carbs or fat in the editor that
\* leaves the three fields numbers p, c, f >= 0 sets calories to
\* round(4p + 4c + 9f), the whole number nearest to the weighted sum of the
\* numbers in the fields, and applying the recomputation again to the
\* unchanged form changes nothing.
C3_DerivedCalories ==
    [][(/\ nedits' = nedits + 1
        /\ NonNegativeNumber(form'.protein)
        /\ NonNegativeNumber(form'.carbs)
        /\ NonNegativeNumber(form'.fat))
          => LET p == form'.protein
                 c == form'.carbs
                 f == form'.fat
                 dp == Denominator(p)
                 dc == Denominator(c)
                 df == Denominator(f)
             IN  /\ form'.calories.t = "number"
                 /\ "n" \in DOMAIN form'.calories
                 /\ Denominator(form'.calories) = Den
                 /\ form'.calories.n % Den = 0
                 /\ IsNearestWhole(form'.calories.n \div Den,
                                   4 * p.n * dc * df + 4 * c.n * dp * df
                                       + 9 * f.n * dp * dc,
                                   dp * dc * df)
                 /\ recalculateCalories(form') = form']_vars

(***************************************************************************)
(* Claims about the Dashboard (checked under Spec).                        *)
(***************************************************************************)
\* C5 (as stated): once Cancel has discarded an analysis result, no meal
\* record for that result is or will be written to the store.
C5_NoRecordForCancelledResult ==
    \A k \in 1..Len(store) : store[k].run \notin cancelled

\* C6: a call of saveNutritionData starts only while nutritionData is
\* non-null, and every document written to the store comes from a save that
\* was started on a held analysis result.
C6_SaveOnlyWithResult ==
    [][/\ Len(saves') > Len(saves) => nutritionData # Null /\ heldRun # 0
       /\ Len(store') > Len(store) => store'[Len(store')].run # 0]_vars

\* C6 witness: a save is in flight while the result it was started on is held.
C6_Witness ==
    \E j \in 1..Len(saves) :
        saves[j].pc = "addMeal" /\ saves[j].write = "pending"
            /\ nutritionData # Null

InFlight == {i \in 1..Len(runs) : runs[i].pc # "done"}

\* C7: at most one analysis request is in flight, and one is in flight only
\* while analyzingMeal is true and no result is held; and no submission is
\* accepted (no run is started) while analyzingMeal is true, while an
\* analysis result is held, or while a request is in flight.
C7_SingleAnalysisInFlight ==
    /\ [](/\ Cardinality(InFlight) <= 1
          /\ InFlight # {} => analyzingMeal /\ nutritionData = Null)
    /\ [][Len(runs') > Len(runs)
            => ~analyzingMeal /\ nutritionData = Null /\ InFlight = {}]_vars

\* C7 witness: a result is held, none is in flight, and the form holds a
\* submission that would be accepted (a description, room for another run,
\* the page mounted): only the Analyze Meal button stands in its way.
C7_Witness ==
    /\ nutritionData # Null
    /\ ~analyzingMeal
    /\ InFlight = {}
    /\ Mounted
    /\ ~ContinuationReady
    /\ ~SubmissionRefused(message, fileList)
    /\ Len(runs) < MaxRuns

SaveSucceededStep == Len(store') = Len(store) + 1

SaveFailedStep ==
    \E j \in 1..Len(saves) : saves[j].pc = "addMeal" /\ saves'[j].pc = "failed"

CancelStep == cancelled' # cancelled

\* C10: a successful store write clears the analysis result, edit mode, the
\* file list and the description; a failed save (schema refusal or store
\* error) leaves them and the store unchanged, shows the error message and
\* starts no other write; and a held result is only ever dropped by a
\* successful write or by Cancel.
C10_ClearedExactlyOnSuccess ==
    [][/\ SaveSucceededStep =>
            /\ nutritionData' = Null
            /\ editingNutrition' = FALSE
            /\ fileList' = <<>>
            /\ message' = Undefined
       /\ SaveFailedStep =>
            /\ UNCHANGED <<nutritionData, editingNutrition, message, fileList,
                           store>>
            /\ toast' = "Failed to save meal"
            /\ Len(saves') = Len(saves)
            /\ \A j \in 1..Len(saves) :
                  saves'[j].pc \in {"getAPI", "addMeal"}
                      => saves'[j] = saves[j]
       /\ (nutritionData # Null /\ nutritionData' = Null)
            => SaveSucceededStep \/ CancelStep]_vars

\* C10 witness: a save has failed on a schema refusal (a cleared field) and
\* the edited result is still held, in edit mode, with the error shown.
C10_Witness ==
    /\ \E j \in 1..Len(saves) : saves[j].pc = "failed"
    /\ nutritionData # Null
    /\ editingNutrition
    /\ \E fld \in NutritionFields : form[fld] = Null
    /\ toast = "Failed to save meal"
    /\ store = <<>>

\* The description is absent or consists of white space only.
BlankDescription(m) ==
    \/ m = Undefined
    \/ m.t = "string" /\ \A i \in 1..Len(m.s) : m.s[i] = " "

\* C11: a submission with an absent or blank description and no attached
\* image is refused: the validation message is set and no run starts (no
\* encoding, no client call), analyzingMeal and nutritionData staying as they
\* are; every other submission passes: the refusing test holds for exactly
\* the blank, image-less inputs, and a run starts only for the others, with
\* the validation message cleared.
C11_ValidationGate ==
    [][/\ SubmissionRefused(message, fileList)
            <=> (BlankDescription(message) /\ fileList = <<>>)
       /\ (validationError' = ValidationMessage
                /\ validationError # ValidationMessage)
            => /\ BlankDescription(message)
               /\ fileList = <<>>
               /\ UNCHANGED <<runs, analyzingMeal, nutritionData>>
       /\ Len(runs') > Len(runs)
            => /\ ~(BlankDescription(message) /\ fileList = <<>>)
               /\ validationError' = "null"]_vars

\* C11 witness: a description of white space only, with no image, was
\* refused before any run was started.
C11_Witness ==
    /\ validationError = ValidationMessage
    /\ message = Str(<<" ">>)
    /\ fileList = <<>>
    /\ runs = <<>>
    /\ ~analyzingMeal
    /\ nutritionData = Null

\* The codes the client gives to its own failures.
StableClientCodes == {"user-not-found", "invalid-input", "analysis-failed"}

\* C12 (as stated): a client call that fails reaches the caller with one of
\* the client's stable codes, never with the code of the RPC layer's error.
C12_StableErrorCodes ==
    call.pc = "rejected" => call.error \in StableClientCodes

\* C13 (as stated): the meal built by a save carries the values of the form
\* and, as its description, the description that was sent for the analysis
\* of the held result, or the placeholder when none was sent.
C13_RecordDescription ==
    [][Len(saves') > Len(saves) =>
          LET m == saves'[Len(saves')].meal
          IN  /\ \A fld \in NutritionFields : m[fld] = form[fld]
              /\ m.meal = IF sentDescription # Undefined THEN sentDescription
                          ELSE Str(Placeholder)]_vars

\* A document fit for the meals collection: three strings and four numbers.
ValidMealRecord(doc) ==
    /\ \A k \in {"userId", "meal", "dateAdded"} : doc[k].t = "string"
    /\ \A k \in NutritionFields : doc[k].t = "number"

\* C14: every document of the store is a valid meal record, and an addMeal
\* whose meal is not one issues no write and fails, the store staying as it
\* was.
C14_SchemaOnWrite ==
    [][/\ \A k \in 1..Len(store') : ValidMealRecord(store'[k].doc)
       /\ \A j \in 1..Len(saves') :
            (saves'[j].pc = "addMeal" /\ ~ValidMealRecord(saves'[j].meal))
                => saves'[j].write = "refused"
       /\ \A j \in 1..Len(saves) :
            (saves[j].pc = "addMeal" /\ ~ValidMealRecord(saves[j].meal)
                    /\ saves'[j] # saves[j])
                => /\ saves'[j].pc = "failed"
                   /\ store' = store
                   /\ toast' = "Failed to save meal"]_vars

\* C14 witness: addMeal has refused a meal with a cleared nutrition field.
C14_Witness ==
    \E j \in 1..Len(saves) :
        /\ saves[j].pc = "addMeal"
        /\ saves[j].write = "refused"
        /\ \E fld \in NutritionFields : saves[j].meal[fld] = Null

\* C15: a register whose account creation succeeded and whose display-name
\* update failed resolves with the created user, the failure being logged
\* once; a register is rejected only when the account was not created.
C15_RegisterPartialFailure ==
    \A i \in 1..Len(regs) :
        /\ regs[i].updateFailed
              => /\ regs[i].pc = "resolved"
                 /\ regs[i].created
                 /\ regs[i].user.id = NewAccount.uid
                 /\ regs[i].user.email = NewAccount.email
                 /\ regs[i].logs = 1
        /\ regs[i].pc = "rejected" => ~regs[i].created /\ regs[i].error # "none"
        /\ (regs[i].created /\ regs[i].pc \notin {"creating", "updating"})
              => regs[i].pc = "resolved" /\ regs[i].user # Null

\* C15 witness: a register with a display name has resolved after its
\* profile update failed.
C15_Witness ==
    \E i \in 1..Len(regs) :
        /\ regs[i].displayName = Str(<<"n">>)
        /\ regs[i].updateFailed
        /\ regs[i].pc = "resolved"
        /\ logged > 0

\* The value is a string of at least one character.
Present(v) == v.t = "string" /\ Len(v.s) > 0

\* The caller and the payload pass the three gates.
PassesGates ==
    /\ auth # Undefined
    /\ Present(auth.f.token.uid)
    /\ unsafeData.t = "object"
    /\ unsafeData.f.description.t \in {"string", "null", "undefined"}
    /\ unsafeData.f.imageBase64.t \in {"string", "null", "undefined"}
    /\ Present(unsafeData.f.description) \/ Present(unsafeData.f.imageBase64)

Turns(kind) == {k \in 1..Len(messages) : messages[k].kind = kind}

\* C16: an invocation that passed the gates makes exactly one model call,
\* also when that call or the parsing fails, and its messages are the system
\* instruction followed by a text turn exactly when a description is given
\* and then an image turn exactly when an image is given.
C16_OneCallOneTurnPerModality ==
    (hpc \notin {"idle", "entry"} /\ PassesGates) =>
        LET d == unsafeData.f.description
            img == unsafeData.f.imageBase64
            n == (IF Present(d) THEN 1 ELSE 0) + (IF Present(img) THEN 1 ELSE 0)
        IN  /\ modelCalls = 1
            /\ Len(messages) = 1 + n
            /\ messages[1] = SystemMessage
            /\ \A k \in 2..Len(messages) : messages[k].role = "user"
            /\ Present(d) => messages[2] = TextTurn(d.s)
            /\ Present(img) => messages[Len(messages)] = ImageTurn(img.s)
            /\ Cardinality(Turns("text")) = (IF Present(d) THEN 1 ELSE 0)
            /\ Cardinality(Turns("image+text")) = (IF Present(img) THEN 1 ELSE 0)

\* C16 witness: an invocation with both a description and an image has
\* failed after its one model call.
C16_Witness ==
    /\ hpc = "thrown"
    /\ herror = "internal"
    /\ modelCalls = 1
    /\ Len(messages) = 3

\* C17: a run that is encoding has made no client call; a run with a file
\* calls the client only from the encoder's completion, with the base64 text
\* the encoder produced; and a run whose encoder fails ends without a client
\* call, with the failure message and no analysis result.
C17_EncoderBeforeRemoteCall ==
    [][\A i \in 1..Len(runs') :
          /\ runs'[i].pc = "encoding" => runs'[i].call = NoCall
          /\ (runs'[i].pc = "client" /\ Len(runs'[i].files) > 0)
                => /\ i <= Len(runs)
                   /\ runs[i].pc \in {"encoding", "client"}
                   /\ runs'[i].files[1].kind # "unreadable"
                   /\ runs'[i].call.input.imageBase64
                          = Base64Of(DataURL(runs'[i].files[1].kind))
          /\ (/\ i <= Len(runs)
              /\ runs[i].pc = "encoding"
              /\ runs[i].files[1].kind = "unreadable"
              /\ runs'[i] # runs[i])
                => /\ runs'[i].pc = "done"
                   /\ toast' = "Failed to analyze meal"
                   /\ nutritionData' = Null
                   /\ ~analyzingMeal']_vars

\* C17 witness: a run with an image attached has its callable invoked with
\* the encoded image.
C17_Witness ==
    \E i \in 1..Len(runs) :
        /\ runs[i].pc = "client"
        /\ Len(runs[i].files) > 0
        /\ runs[i].call.pc = "rpc"
        /\ runs[i].call.input.imageBase64 = Str(<<"a">>)

\* C18 (as stated): the API class is constructed at most once and all calls
\* of getAPI() that have resolved hold the same instance.
C18_SingletonAPI ==
    /\ constructed <= 1
    /\ \A i, j \in 1..Len(gets) :
          (gets[i].pc = "resolved" /\ gets[j].pc = "resolved")
              => gets[i].instance = gets[j].instance

\* C19 (as stated): once the observer has delivered its first event to a
\* requireUser() call, the call is settled: resolved with the mapped user for
\* a user, rejected with a coded error for no user and for an observer error.
C19_RequireUserSettles ==
    \A k \in 1..Len(requires) :
        requires[k].ev # Null =>
            CASE requires[k].ev.kind = "user" ->
                    /\ requires[k].pc = "resolved"
                    /\ requires[k].user = mapFirebaseUser(requires[k].ev.user)
              [] requires[k].ev.kind = "no-user" ->
                    /\ requires[k].pc = "rejected"
                    /\ requires[k].error = "user-not-found"
              [] OTHER ->
                    /\ requires[k].pc = "rejected"
                    /\ requires[k].error # "none"

\* C20: the store never holds two documents for the same analysis result.
C20_PersistedAtMostOnce ==
    \A k1, k2 \in 1..Len(store) :
        store[k1].run = store[k2].run => k1 = k2

\* C20 witness: a result was saved twice, the first save failing, and the
\* store holds one document for it.
C20_Witness ==
    /\ Len(store) = 1
    /\ \E j1, j2 \in 1..Len(saves) :
          /\ j1 < j2
          /\ saves[j1].run = store[1].run
          /\ saves[j2].run = store[1].run
          /\ saves[j1].pc = "failed"
          /\ saves[j2].pc = "saved"

\* C21 (as stated): with no analysis result held edit mode is off; a result
\* that arrives is shown with edit mode off; and a result held in edit mode
\* is discarded only by the successful save of that result.
C21_NullResultEditOff ==
    [][/\ nutritionData = Null => ~editingNutrition
       /\ nutritionData' = Null => ~editingNutrition'
       /\ (nutritionData = Null /\ nutritionData' # Null) => ~editingNutrition'
       /\ (editingNutrition /\ nutritionData # Null /\ nutritionData' = Null)
            => /\ SaveSucceededStep
               /\ store'[Len(store')].run = heldRun]_vars

\* C22 (as stated): every analysis run that was started eventually ends; the
\* step that ends it clears analyzingMeal; when it ends in failure no result
\* is held and the Analyze Meal button takes a click again; when it ends in
\* success the result held is the value the client call returned.
C22_AnalysisEventuallyEnds ==
    /\ [][\A i \in 1..Len(runs) :
            (runs[i].pc # "done" /\ runs'[i].pc = "done")
                => /\ ~analyzingMeal'
                   /\ IF runs[i].pc = "client" /\ runs[i].call.pc = "resolved"
                      THEN nutritionData' = runs[i].call.data
                      ELSE nutritionData' = Null /\ AnalyzeButtonEnabled']_vars
    /\ \A i \in 1..MaxRuns :
          (Len(runs) >= i /\ runs[i].pc # "done")
              ~> (Len(runs) >= i /\ runs[i].pc = "done")

====
